---- MODULE Spec2Model ----
(***************************************************************************)
(* CrossTalker: a receive-side framing engine over a byte-oriented serial  *)
(* link (crosstalker.hpp), its codec, its CRC and the endianness helpers   *)
(* (endian.hpp). Bytes are naturals 0..255. Unsigned integers of 2, 4 and  *)
(* 8 bytes are kept as their base-256 digits, least significant first, so  *)
(* that no value outgrows 32-bit model integers.                           *)
(***************************************************************************)
EXTENDS Integers, Sequences, FiniteSets, TLC

\* ------------------------------------------------------------- sizes
\* CrossTalker<BUFFER_SIZE, SERIALIZATION_BUFFER_SIZE>: the instantiation checked.
BUFFER_SIZE == 10

SERIALIZATION_BUFFER_SIZE == BUFFER_SIZE - 1

\* The start marker of an object frame.
Marker0 == 2

Marker1 == 66

\* ReadResult and WriteResult.
ReadResults ==
  {"Success", "NoObjectAvailable", "NotEnoughData", "CrcError",
   "ObjectIdMismatch", "ObjectSizeMismatch"}

WriteResults == {"Success", "ObjectTooLarge", "WriteError"}

\* ------------------------------------------------------------- helpers
\* std::min as the code calls it.
Min(a, b) == IF a < b THEN a ELSE b

\* Bitwise exclusive or of two naturals.
RECURSIVE Xor(_, _)
Xor(a, b) ==
  IF a = 0 THEN b
  ELSE IF b = 0 THEN a
  ELSE ((a + b) % 2) + 2 * Xor(a \div 2, b \div 2)

Reverse(s) == [i \in 1..Len(s) |-> s[Len(s) + 1 - i]]

\* The digits (least significant first) of a 16-bit number, and back.
Digits16(x) == <<x % 256, (x \div 256) % 256>>

Num16(d) == d[1] + 256 * d[2]

\* ------------------------------------------------------------- endian.hpp
\* A byteswap that exchanges the two low bytes only.
byteswap_low_bytes(value) ==
  [i \in 1..Len(value) |-> IF i <= 2 THEN value[3 - i] ELSE value[i]]

\* byteswap: the shifts and masks move digit i to digit size+1-i.
byteswap(value) == [i \in 1..Len(value) |-> value[Len(value) + 1 - i]]

hosttole(value, le) == IF le THEN value ELSE byteswap(value)

letohost(value, le) == IF le THEN value ELSE byteswap(value)

\* std::memcpy between an unsigned integer and bytes: the object representation
\* of the integer on this host.
ToMem(value, le) == IF le THEN value ELSE Reverse(value)

FromMem(bytes, le) == IF le THEN bytes ELSE Reverse(bytes)

\* ------------------------------------------------------------- CRC-16
crc_step(crc, b) ==
  LET x0 == Xor(crc \div 256, b) % 256
      x  == Xor(x0, x0 \div 16)
  IN Xor(Xor(Xor((crc * 256) % 65536, (x * 4096) % 65536), x * 32), x)

\* The loop over the bytes; crc is a value, computed once per byte.
RECURSIVE crc_fold(_, _, _)
crc_fold(crc, data, i) ==
  IF i > Len(data) THEN crc
  ELSE CHOOSE r \in {crc_fold(c, data, i + 1) : c \in {crc_step(crc, data[i])}} : TRUE

compute_crc16(data) == crc_fold(65535, data, 1)

\* ------------------------------------------------------------- schema codec
\* The shapes the codec recognises. A scalar value is the s digits of its bit
\* pattern; a string is its bytes; a vector, an array and a record are the
\* sequences of their elements or fields.
Scalar(s) == [k |-> "scalar", s |-> s, e |-> <<>>]

String == [k |-> "string", s |-> 0, e |-> <<>>]

Vector(T) == [k |-> "vector", s |-> 0, e |-> <<T>>]

Array(T, N) == [k |-> "array", s |-> N, e |-> <<T>>]

Record(fields) == [k |-> "record", s |-> 0, e |-> fields]

\* A value-initialised object of shape T (what resize() and T{} give).
RECURSIVE Default(_)
Default(T) ==
  CASE T.k = "scalar" -> [i \in 1..T.s |-> 0]
    [] T.k = "string" -> <<>>
    [] T.k = "vector" -> <<>>
    [] T.k = "array"  -> [i \in 1..T.s |-> Default(T.e[1])]
    [] T.k = "record" -> [i \in 1..Len(T.e) |-> Default(T.e[i])]

\* compute_size that leaves the item count of a fixed array out of the sum.
RECURSIVE compute_size_array_uncounted(_, _)
compute_size_array_uncounted(T, v) ==
  LET SumItems[i \in 0..Len(v)] ==
        IF i = 0 THEN 0
        ELSE SumItems[i - 1] + compute_size_array_uncounted(T.e[1], v[i])
      SumFields[i \in 0..Len(T.e)] ==
        IF i = 0 THEN 0
        ELSE SumFields[i - 1] + compute_size_array_uncounted(T.e[i], v[i])
  IN CASE T.k = "scalar" -> T.s
       [] T.k = "string" -> 2 + Len(v)
       [] T.k = "vector" -> 2 + SumItems[Len(v)]
       [] T.k = "array"  -> SumItems[Len(v)]
       [] T.k = "record" -> SumFields[Len(T.e)]

RECURSIVE compute_size(_, _)
compute_size(T, v) ==
  LET SumItems[i \in 0..Len(v)] ==
        IF i = 0 THEN 0 ELSE SumItems[i - 1] + compute_size(T.e[1], v[i])
      SumFields[i \in 0..Len(T.e)] ==
        IF i = 0 THEN 0 ELSE SumFields[i - 1] + compute_size(T.e[i], v[i])
  IN CASE T.k = "scalar" -> T.s
       [] T.k = "string" -> 2 + Len(v)
       [] T.k = "vector" -> 2 + SumItems[Len(v)]
       [] T.k = "array"  -> 2 + SumItems[Len(v)]
       [] T.k = "record" -> SumFields[Len(T.e)]

serialize_scalar(value, le) ==
  IF Len(value) = 1 THEN value ELSE ToMem(hosttole(value, le), le)

RECURSIVE serialize(_, _, _)
serialize(T, v, le) ==
  LET Items[i \in 0..Len(v)] ==
        IF i = 0 THEN <<>> ELSE Items[i - 1] \o serialize(T.e[1], v[i], le)
      Fields[i \in 0..Len(T.e)] ==
        IF i = 0 THEN <<>> ELSE Fields[i - 1] \o serialize(T.e[i], v[i], le)
  IN CASE T.k = "scalar" -> serialize_scalar(v, le)
       [] T.k = "string" -> serialize_scalar(Digits16(Len(v)), le) \o v
       [] T.k = "vector" -> serialize_scalar(Digits16(Len(v)), le) \o Items[Len(v)]
       [] T.k = "array"  -> serialize_scalar(Digits16(T.s), le) \o Items[Len(v)]
       [] T.k = "record" -> Fields[Len(T.e)]

\* serialize( value, data ) as the stores it makes: n is the value it returns,
\* w the memcpy calls in order, each with its offset from data and its bytes.
serialize_scalar_into(value, at, le) ==
  [n |-> Len(value), w |-> << [at |-> at, bytes |-> serialize_scalar(value, le)] >>]

serialize_string_into(str, at, offset) ==
  [n |-> offset.n + Len(str),
   w |-> offset.w \o << [at |-> at + offset.n, bytes |-> str] >>]

serialize_item_into(offset, item) ==
  [n |-> offset.n + item.n, w |-> offset.w \o item.w]

RECURSIVE serialize_into(_, _, _, _)
\* offset += serialize( item, data + offset )
serialize_after(offset, T, v, at, le) ==
  CHOOSE r \in {serialize_item_into(offset, item) :
                  item \in {serialize_into(T, v, at + offset.n, le)}} : TRUE

serialize_into(T, v, at, le) ==
  LET Count(N) == serialize_scalar_into(Digits16(N), at, le)
      Items[i \in 0..Len(v)] ==
        IF i = 0 THEN Count(IF T.k = "array" THEN T.s ELSE Len(v))
        ELSE CHOOSE r \in {serialize_after(offset, T.e[1], v[i], at, le) :
                             offset \in {Items[i - 1]}} : TRUE
      Fields[i \in 0..Len(T.e)] ==
        IF i = 0 THEN [n |-> 0, w |-> <<>>]
        ELSE CHOOSE r \in {serialize_after(offset, T.e[i], v[i], at, le) :
                             offset \in {Fields[i - 1]}} : TRUE
  IN CASE T.k = "scalar" -> serialize_scalar_into(v, at, le)
       [] T.k = "string" -> serialize_string_into(v, at, Count(Len(v)))
       [] T.k = "vector" -> Items[Len(v)]
       [] T.k = "array"  -> Items[Len(v)]
       [] T.k = "record" -> Fields[Len(T.e)]

\* A scalar decoder that does not compare length with the scalar's size.
deserialize_scalar_unchecked(s, data, pos, length, obj, le) ==
  [n |-> s,
   v |-> letohost(FromMem([i \in 1..s |-> IF pos + i <= Len(data) THEN data[pos + i]
                                          ELSE 0], le), le)]

\* A scalar decoder that leaves the bytes in host order.
deserialize_scalar_host_order(s, data, pos, length, obj, le) ==
  IF length < s THEN [n |-> 0, v |-> obj]
  ELSE [n |-> s,
        v |-> IF s = 1 THEN <<data[pos + 1]>>
              ELSE FromMem(SubSeq(data, pos + 1, pos + s), le)]

\* deserialize(data + pos, length, obj): [n |-> bytes consumed, v |-> obj afterwards].
deserialize_scalar(s, data, pos, length, obj, le) ==
  IF length < s THEN [n |-> 0, v |-> obj]
  ELSE [n |-> s,
        v |-> IF s = 1 THEN <<data[pos + 1]>>
              ELSE letohost(FromMem(SubSeq(data, pos + 1, pos + s), le), le)]

RECURSIVE deserialize(_, _, _, _, _, _)
\* offset += deserialize( data + offset, length - offset, item ), item being
\* the i-th item or field of the object prev.v.
deserialize_next(prev, U, i, data, pos, length, le) ==
  CHOOSE r \in {[n |-> prev.n + one.n, v |-> [prev.v EXCEPT ![i] = one.v]] :
                  one \in {deserialize(U, data, pos + prev.n, length - prev.n,
                                       prev.v[i], le)}} : TRUE

deserialize(T, data, pos, length, obj, le) ==
  LET count  == deserialize_scalar(2, data, pos, length, <<0, 0>>, le)
      N      == Num16(count.v)
      \* vec.resize(item_count)
      vec    == [i \in 1..N |-> IF i <= Len(obj) THEN obj[i] ELSE Default(T.e[1])]
      \* the element loop: offset and container after i elements
      Items[i \in 0..Min(N, IF T.k = "array" THEN T.s ELSE N)] ==
        IF i = 0 THEN [n |-> count.n, v |-> IF T.k = "array" THEN obj ELSE vec]
        ELSE CHOOSE r \in {deserialize_next(prev, T.e[1], i, data, pos, length, le) :
                             prev \in {Items[i - 1]}} : TRUE
      Fields[i \in 0..Len(T.e)] ==
        IF i = 0 THEN [n |-> 0, v |-> obj]
        ELSE CHOOSE r \in {deserialize_next(prev, T.e[i], i, data, pos, length, le) :
                             prev \in {Fields[i - 1]}} : TRUE
  IN CASE T.k = "scalar" -> deserialize_scalar(T.s, data, pos, length, obj, le)
       [] T.k = "string" ->
            IF length < count.n + N THEN [n |-> 0, v |-> obj]
            ELSE [n |-> count.n + N,
                  v |-> SubSeq(data, pos + count.n + 1, pos + count.n + N)]
       [] T.k = "vector" -> Items[N]
       [] T.k = "array"  -> Items[Min(N, T.s)]
       [] T.k = "record" -> Fields[Len(T.e)]

\* The calls of deserialize that decoding a value of shape T makes, this one
\* and the nested ones: the shape decoded, the offset into data and the
\* length passed.
RECURSIVE deserialize_calls(_, _, _, _, _)
deserialize_calls(T, data, pos, length, le) ==
  LET self   == [T |-> T, pos |-> pos, length |-> length]
      count  == [T |-> Scalar(2), pos |-> pos, length |-> length]
      N      == Num16(deserialize_scalar(2, data, pos, length, <<0, 0>>, le).v)
      After(U, at) ==
        at + deserialize(U, data, pos + at, length - at, Default(U), le).n
      ItemAt[i \in 1..N] ==
        IF i = 1 THEN deserialize_scalar(2, data, pos, length, <<0, 0>>, le).n
        ELSE After(T.e[1], ItemAt[i - 1])
      FieldAt[i \in 1..Len(T.e)] ==
        IF i = 1 THEN 0 ELSE After(T.e[i - 1], FieldAt[i - 1])
      Items(M) ==
        UNION {deserialize_calls(T.e[1], data, pos + ItemAt[i], length - ItemAt[i], le) :
                 i \in 1..M}
  IN CASE T.k = "scalar" -> {self}
       [] T.k = "string" -> {self, count}
       [] T.k = "vector" -> {self, count} \cup Items(N)
       [] T.k = "array"  -> {self, count} \cup Items(Min(N, T.s))
       [] T.k = "record" ->
            {self} \cup
            UNION {deserialize_calls(T.e[i], data, pos + FieldAt[i],
                                     length - FieldAt[i], le) : i \in 1..Len(T.e)}

\* assert( item_count == N ) holds in every array decoder among the calls.
deserialize_asserted(calls, data, le) ==
  \A c \in calls :
    c.T.k = "array" =>
      Num16(deserialize_scalar(2, data, c.pos, c.length, <<0, 0>>, le).v) = c.T.s

\* ------------------------------------------------------------- sendObject
\* The frame with its length field stored in host byte order.
object_frame_host_length(T, id, obj, le) ==
  LET payload == serialize(T, obj, le)
      uid     == ToMem(hosttole(Digits16(id % 65536), le), le)
      size    == ToMem(Digits16(Len(payload) % 65536), le)
      head    == <<Marker0, Marker1>> \o uid \o size \o payload
      crc     == ToMem(hosttole(Digits16(compute_crc16(head)), le), le)
  IN head \o crc

\* The frame sendObject assembles in obj_buffer_ for an object obj of a type
\* with shape T and id `id`.
object_frame(T, id, obj, le) ==
  LET payload == serialize(T, obj, le)
      uid     == ToMem(hosttole(Digits16(id % 65536), le), le)
      size    == ToMem(hosttole(Digits16(Len(payload) % 65536), le), le)
      head    == <<Marker0, Marker1>> \o uid \o size \o payload
      crc     == ToMem(hosttole(Digits16(compute_crc16(head)), le), le)
  IN head \o crc

\* sendObject refusing an object whose frame fills obj_buffer_ exactly.
sendObject_rejects_exact_fit(objbuf, S, T, id, obj, le, write_ok) ==
  LET size  == 8 + compute_size(T, obj)
      frame == object_frame(T, id, obj, le)
  IN IF size >= S
     THEN [result |-> "ObjectTooLarge", written |-> <<>>, calls |-> <<>>,
           obj_buffer_ |-> objbuf]
     ELSE [result |-> IF write_ok THEN "Success" ELSE "WriteError",
           written |-> frame,
           calls |-> <<frame>>,
           obj_buffer_ |-> [i \in DOMAIN objbuf |->
                              IF i < Len(frame) THEN frame[i + 1] ELSE objbuf[i]]]

\* sendObject writing the frame a second time when the port refuses it.
sendObject_retries(objbuf, S, T, id, obj, le, write_ok) ==
  LET size  == 8 + compute_size(T, obj)
      frame == object_frame(T, id, obj, le)
  IN IF size > S
     THEN [result |-> "ObjectTooLarge", written |-> <<>>, calls |-> <<>>,
           obj_buffer_ |-> objbuf]
     ELSE [result |-> IF write_ok THEN "Success" ELSE "WriteError",
           written |-> frame,
           calls |-> IF write_ok THEN <<frame>> ELSE <<frame, frame>>,
           obj_buffer_ |-> [i \in DOMAIN objbuf |->
                              IF i < Len(frame) THEN frame[i + 1] ELSE objbuf[i]]]

\* [result, written (the bytes handed to serial_->write), calls (the calls of
\* serial_->write, each the bytes it was given), obj_buffer_ afterwards]
sendObject(objbuf, S, T, id, obj, le, write_ok) ==
  LET size  == 8 + compute_size(T, obj)
      frame == object_frame(T, id, obj, le)
  IN IF size > S
     THEN [result |-> "ObjectTooLarge", written |-> <<>>, calls |-> <<>>,
           obj_buffer_ |-> objbuf]
     ELSE [result |-> IF write_ok THEN "Success" ELSE "WriteError",
           written |-> frame,
           calls |-> <<frame>>,
           obj_buffer_ |-> [i \in DOMAIN objbuf |->
                              IF i < Len(frame) THEN frame[i + 1] ELSE objbuf[i]]]

\* ------------------------------------------------------------- widths
\* int and size_t are IntBits wide; static_cast<int>( size_t ) keeps the low bits.
IntBits == 16

SIZE_MAX == 2^IntBits - 1

static_cast_int(length) ==
  LET m == length % (2^IntBits)
  IN IF m >= 2^(IntBits - 1) THEN m - 2^IntBits ELSE m

\* ------------------------------------------------------------- the port
\* TestSerialAbstraction: available() is the size of receive_buffer, read() takes
\* min(length, size) bytes from its front.
serial_available(e) == Len(e.receive_buffer)

serial_read_count(e, length) == Min(Len(e.receive_buffer), length)

\* ------------------------------------------------------------- the ring
\* An engine e is [buffer_, buffer_index_, buffer_size_, receive_buffer]:
\* buffer_ is a function on 0..BUFFER_SIZE-1, receive_buffer the bytes waiting
\* in the port.
wrap(index) == IF index >= BUFFER_SIZE THEN index - BUFFER_SIZE ELSE index

\* Mutant: the size shrinks but the read index stays where it was.
_markRead_keeps_index(e, count) ==
  LET size == e.buffer_size_ - count
  IN IF size <= 0
     THEN [e EXCEPT !.buffer_size_ = 0, !.buffer_index_ = 0]
     ELSE [e EXCEPT !.buffer_size_ = size]

_markRead(e, count) ==
  LET size  == e.buffer_size_ - count
      index == wrap(e.buffer_index_ + count)
  IN IF size <= 0
     THEN [e EXCEPT !.buffer_size_ = 0, !.buffer_index_ = 0]
     ELSE [e EXCEPT !.buffer_size_ = size, !.buffer_index_ = index]

\* Mutant: the loop runs until the port is empty, whatever max_to_read says.
RECURSIVE _processSerialData_uncapped(_, _)
_processSerialData_uncapped(e, max_to_read) ==
  LET available == serial_available(e)
      index     == wrap(e.buffer_index_ + e.buffer_size_)
      count     == serial_read_count(e, Min(available, BUFFER_SIZE - index))
      e1        == [e EXCEPT
                     !.buffer_ = [i \in DOMAIN e.buffer_ |->
                                    IF index <= i /\ i < index + count
                                    THEN e.receive_buffer[i - index + 1]
                                    ELSE e.buffer_[i]],
                     !.receive_buffer =
                        SubSeq(e.receive_buffer, count + 1, Len(e.receive_buffer)),
                     !.buffer_size_ = e.buffer_size_ + count]
      e2        == IF e1.buffer_size_ > BUFFER_SIZE
                   THEN _markRead(e1, e1.buffer_size_ - BUFFER_SIZE)
                   ELSE e1
  IN IF available <= 0 THEN e
     ELSE _processSerialData_uncapped(e2, max_to_read - count)

\* The count the loop body asks serial_->read for.
_processSerialData_request(e, max_to_read, available) ==
  Min(Min(available, BUFFER_SIZE - wrap(e.buffer_index_ + e.buffer_size_)),
      max_to_read)

\* One pass of the loop body: the port copies `count` bytes, the first `count`
\* of those it holds, to buffer_ + index.
_processSerialData_pass(e, max_to_read, count) ==
  LET index == wrap(e.buffer_index_ + e.buffer_size_)
      e1    == [e EXCEPT
                 !.buffer_ = [i \in DOMAIN e.buffer_ |->
                                IF index <= i /\ i < index + count
                                THEN e.receive_buffer[i - index + 1]
                                ELSE e.buffer_[i]],
                 !.receive_buffer =
                    SubSeq(e.receive_buffer, count + 1, Len(e.receive_buffer)),
                 !.buffer_size_ = e.buffer_size_ + count]
  IN [e |-> IF e1.buffer_size_ > BUFFER_SIZE
            THEN _markRead(e1, e1.buffer_size_ - BUFFER_SIZE)
            ELSE e1,
      max_to_read |-> max_to_read - count]

RECURSIVE _processSerialData(_, _)
_processSerialData(e, max_to_read) ==
  IF serial_available(e) <= 0 THEN e
  ELSE IF max_to_read = 0 THEN e
  ELSE \* the loop goes round with the buffer and the count the pass left
       CHOOSE after \in
         {_processSerialData(pass.e, pass.max_to_read) :
            pass \in {_processSerialData_pass(
                        e, max_to_read,
                        serial_read_count(
                          e, _processSerialData_request(
                               e, max_to_read, serial_available(e))))}} : TRUE

_processSerialDataUntil(e, index) ==
  LET d == index - e.buffer_index_
      max_to_read == (IF d < 0 THEN d + BUFFER_SIZE ELSE d)
                     + BUFFER_SIZE - e.buffer_size_
  IN _processSerialData(e, max_to_read)

\* Mutant: non-overwrite mode reads as much as overwrite mode does.
processSerialData_displaces(e, overwrite_buffer) ==
  _processSerialData(
    e, IF e.buffer_size_ = 0 THEN BUFFER_SIZE ELSE BUFFER_SIZE - 1)

\* Mutant: overwrite mode reserves no byte when the buffer is not empty.
processSerialData_no_reserve(e, overwrite_buffer) ==
  IF overwrite_buffer
  THEN _processSerialData(e, BUFFER_SIZE)
  ELSE IF e.buffer_size_ < BUFFER_SIZE
       THEN _processSerialData(e, BUFFER_SIZE - e.buffer_size_)
       ELSE e

processSerialData(e, overwrite_buffer) ==
  IF overwrite_buffer
  THEN _processSerialData(
         e, IF e.buffer_size_ = 0 THEN BUFFER_SIZE ELSE BUFFER_SIZE - 1)
  ELSE IF e.buffer_size_ < BUFFER_SIZE
       THEN _processSerialData(e, BUFFER_SIZE - e.buffer_size_)
       ELSE e

\* The 16-bit little-endian field at `index` (already wrapped), as the code reads
\* it: byte by byte when it is split across the end of the array, else by memcpy.
read_field16(e, index, le) ==
  LET tmp == IF index = BUFFER_SIZE - 1
             THEN <<e.buffer_[index], e.buffer_[0]>>
             ELSE FromMem(<<e.buffer_[index], e.buffer_[index + 1]>>, le)
  IN letohost(tmp, le)

_readObjectSize(e, start_index, le) ==
  Num16(read_field16(e, wrap(start_index + 4), le))

\* The do-while loop of _findNextObjectIndex, from its first test on.
RECURSIVE find_loop(_, _, _, _, _)
find_loop(e, index, end, obj_index, have_first) ==
  IF have_first /\ e.buffer_[index] = Marker1 THEN obj_index
  ELSE LET first == e.buffer_[index] = Marker0
           next  == wrap(index + 1)
       IN IF next # end
          THEN find_loop(e, next, end, IF first THEN index ELSE obj_index, first)
          ELSE -1

\* Mutant: the scan starts one cell after the read index.
_findNextObjectIndex_skips_head(e, start, end) ==
  find_loop(e, wrap(start + 1), wrap(end), -1, FALSE)

\* Mutant: the scan runs one cell past the live content.
_findNextObjectIndex_overrun(e, start, end) ==
  find_loop(e, start, wrap(wrap(end) + 1), -1, FALSE)

_findNextObjectIndex(e, start, end) ==
  find_loop(e, start, wrap(end), -1, FALSE)

\* Mutant: a trailing 0x02 is counted as generic.
available_releases_tail(e) ==
  IF e.buffer_size_ = 0 THEN 0
  ELSE LET obj_index ==
             _findNextObjectIndex(e, e.buffer_index_, e.buffer_index_ + e.buffer_size_)
           avail == obj_index - e.buffer_index_
       IN IF obj_index = -1 THEN e.buffer_size_
          ELSE IF avail < 0 THEN avail + BUFFER_SIZE ELSE avail

available(e) ==
  IF e.buffer_size_ = 0 THEN 0
  ELSE LET obj_index ==
             _findNextObjectIndex(e, e.buffer_index_, e.buffer_index_ + e.buffer_size_)
           last_index == wrap(e.buffer_index_ + e.buffer_size_ - 1)
           avail == obj_index - e.buffer_index_
       IN IF obj_index = -1
          THEN (IF e.buffer_[last_index] = Marker0
                THEN e.buffer_size_ - 1 ELSE e.buffer_size_)
          ELSE IF avail < 0 THEN avail + BUFFER_SIZE ELSE avail

\* Mutant: the marker is looked for without the test of buffer_size_.
hasObject_any_size(e) ==
  IF e.buffer_[e.buffer_index_] # Marker0 THEN FALSE
  ELSE e.buffer_[wrap(e.buffer_index_ + 1)] = Marker1

hasObject(e) ==
  IF e.buffer_size_ < 4 \/ e.buffer_[e.buffer_index_] # Marker0 THEN FALSE
  ELSE e.buffer_[wrap(e.buffer_index_ + 1)] = Marker1

getObjectId(e, le) ==
  IF e.buffer_size_ < 4 \/ ~hasObject(e) THEN -1
  ELSE LET tmp == Num16(read_field16(e, wrap(e.buffer_index_ + 2), le))
       IN IF tmp >= 32768 THEN tmp - 65536 ELSE tmp

\* clearBuffer
clearBuffer(e) == [e EXCEPT !.buffer_index_ = 0, !.buffer_size_ = 0]

\* read: [e, ret (the count returned), data (the bytes copied to the caller),
\* overrun]. overrun: a length that static_cast<int> makes negative escapes the
\* clamp, and memcpy is asked for that many bytes from inside buffer_, far past
\* its end; what it copies is not decided here.
read(e, length) ==
  LET available_bytes == available(e)
      len   == IF static_cast_int(length) > available_bytes
               THEN available_bytes ELSE length
      start == e.buffer_index_
      end   == e.buffer_index_ + len
      part1 == IF end > BUFFER_SIZE
               THEN [i \in 1..(BUFFER_SIZE - start) |-> e.buffer_[start + i - 1]]
               ELSE <<>>
      start2 == IF end > BUFFER_SIZE THEN 0 ELSE start
      end2   == IF end > BUFFER_SIZE THEN end - BUFFER_SIZE ELSE end
      part2 == [i \in 1..(end2 - start2) |-> e.buffer_[start2 + i - 1]]
  IN IF len = 0 THEN [e |-> e, ret |-> 0, data |-> <<>>, overrun |-> FALSE]
     ELSE IF static_cast_int(len) < 0
          THEN [e |-> _markRead(e, static_cast_int(len)), ret |-> len,
                data |-> <<>>, overrun |-> TRUE]
     ELSE [e |-> _markRead(e, len), ret |-> len, data |-> part1 \o part2,
           overrun |-> FALSE]

\* skip: [e, ret]
skip(e, length) ==
  LET e1  == processSerialData(e, FALSE)
      available_bytes == available(e1)
      len == IF static_cast_int(length) > available_bytes
             THEN available_bytes ELSE length
  IN [e |-> _markRead(e1, static_cast_int(len)), ret |-> len]

\* The two memcpy calls that linearise a frame that wraps: S is the size of
\* obj_buffer_; cells at S and beyond are outside the array.
copy_wrapped(e, objbuf, total) ==
  LET first == BUFFER_SIZE - e.buffer_index_
  IN [i \in DOMAIN objbuf |->
        IF i < first THEN e.buffer_[e.buffer_index_ + i]
        ELSE IF i < total THEN e.buffer_[i - first]
        ELSE objbuf[i]]

\* readObject<T>: [e, obj_buffer_, result, obj, overflow]. obj_buffer_ is a
\* function on 0..S-1. overflow: the copy of a wrapped frame writes past the end
\* of obj_buffer_; what follows such a write is not decided here.
\* The pointer `data`: the frame as one run of bytes, in buffer_ or in obj_buffer_.
frame_data(e1, scratch, total, wraps) ==
  IF wraps
  THEN [i \in 1..total |-> scratch[i - 1]]
  ELSE [i \in 1..total |-> e1.buffer_[e1.buffer_index_ + i - 1]]

\* A readObject that decodes into the caller's object before it looks at the
\* CRC.
readObject_return_decoded(e1, objbuf, serialized_size, obj, crc_ok, dec) ==
  [e |-> _markRead(e1, 8 + serialized_size),
   obj_buffer_ |-> objbuf,
   result |-> IF ~crc_ok THEN "CrcError"
              ELSE IF serialized_size # dec.n THEN "ObjectSizeMismatch"
              ELSE "Success",
   obj |-> dec.v,
   overflow |-> FALSE]

\* From _markRead( 8 + serialized_size ) to the return: crc_ok is crc ==
\* computed_crc, dec what deserialize returned.
readObject_return(e1, objbuf, serialized_size, obj, crc_ok, dec) ==
  [e |-> _markRead(e1, 8 + serialized_size),
   obj_buffer_ |-> objbuf,
   result |-> IF ~crc_ok THEN "CrcError"
              ELSE IF serialized_size # dec.n THEN "ObjectSizeMismatch"
              ELSE "Success",
   obj |-> IF crc_ok THEN dec.v ELSE obj,
   overflow |-> FALSE]

\* The CRC check and the deserialization of the frame at `data`.
readObject_check(e1, objbuf, T, obj, le, serialized_size, data) ==
  readObject_return(
    e1, objbuf, serialized_size, obj,
    Num16(letohost(FromMem(<<data[serialized_size + 7],
                             data[serialized_size + 8]>>, le), le))
      = compute_crc16(SubSeq(data, 1, 6 + serialized_size)),
    deserialize(T, data, 6, serialized_size, obj, le))

\* From the length check on, serialized_size being what _readObjectSize returned.
readObject_sized(e1, objbuf, T, obj, le, serialized_size) ==
  LET total   == 8 + serialized_size
      wraps   == e1.buffer_index_ + serialized_size + 8 > BUFFER_SIZE
      scratch == copy_wrapped(e1, objbuf, total)
  IN IF serialized_size + 8 > e1.buffer_size_
     THEN [e |-> e1, obj_buffer_ |-> objbuf, result |-> "NotEnoughData",
           obj |-> obj, overflow |-> FALSE]
     ELSE IF wraps /\ total > Cardinality(DOMAIN objbuf)
          THEN [e |-> e1, obj_buffer_ |-> objbuf, result |-> "Success", obj |-> obj,
                overflow |-> TRUE]
     ELSE readObject_check(e1, IF wraps THEN scratch ELSE objbuf, T, obj, le,
                           serialized_size, frame_data(e1, scratch, total, wraps))

\* From the first test after _processSerialDataUntil on.
readObject_header(e1, objbuf, T, id, obj, le) ==
  IF e1.buffer_size_ < 6
  THEN [e |-> e1, obj_buffer_ |-> objbuf, result |-> "NotEnoughData", obj |-> obj,
        overflow |-> FALSE]
  ELSE IF getObjectId(e1, le) # id
       THEN [e |-> e1, obj_buffer_ |-> objbuf, result |-> "ObjectIdMismatch",
             obj |-> obj, overflow |-> FALSE]
  ELSE readObject_sized(e1, objbuf, T, obj, le,
                        _readObjectSize(e1, e1.buffer_index_, le))

readObject(e, objbuf, T, id, obj, le) ==
  IF ~hasObject(e)
  THEN [e |-> e, obj_buffer_ |-> objbuf, result |-> "NoObjectAvailable", obj |-> obj,
        overflow |-> FALSE]
  ELSE readObject_header(_processSerialDataUntil(e, e.buffer_index_), objbuf, T, id,
                         obj, le)

\* skipObject: [e, result]
\* From the first test after _processSerialDataUntil on.
skipObject_header(e1, serialized_size) ==
  IF e1.buffer_size_ < 6 THEN [e |-> e1, result |-> "NotEnoughData"]
  ELSE IF serialized_size + 8 > e1.buffer_size_
       THEN [e |-> e1, result |-> "NotEnoughData"]
  ELSE [e |-> _markRead(e1, serialized_size + 8), result |-> "Success"]

skipObject_ingested(e1, le) ==
  skipObject_header(e1, _readObjectSize(e1, e1.buffer_index_, le))

skipObject(e, le) ==
  IF ~hasObject(e) THEN [e |-> e, result |-> "NoObjectAvailable"]
  ELSE skipObject_ingested(_processSerialDataUntil(e, e.buffer_index_), le)

\* ------------------------------------------------------------- the test types
\* Registered object types (REFL_AUTO with crosstalk::id): a record of one
\* 1-byte scalar, and a record of one 2-byte scalar.
TypeNames == {"Simple", "Word"}

TypeOf ==
  [Simple |-> [id |-> 1, T |-> Record(<<Scalar(1)>>)],
   Word   |-> [id |-> 2, T |-> Record(<<Scalar(2)>>)]]

\* ------------------------------------------------------------- state
VARIABLES
  buffer_,            \* std::array<uint8_t, BUFFER_SIZE>
  obj_buffer_,        \* std::array<uint8_t, SERIALIZATION_BUFFER_SIZE>
  buffer_index_,      \* r
  buffer_size_,       \* n
  is_little_endian,   \* the byte order of the host this build runs on
  receive_buffer,     \* the port: bytes that arrived and were not read yet
  wire,               \* the chunks the peer has sent that have not arrived yet
  out,                \* the caller's objects, one per type, passed to readObject
  last,               \* the last call: [op, arg, ret, result, data, lost]
  ub                  \* a call has written outside an array

vars ==
  <<buffer_, obj_buffer_, buffer_index_, buffer_size_, is_little_endian,
    receive_buffer, wire, out, last, ub>>

Self ==
  [buffer_ |-> buffer_, buffer_index_ |-> buffer_index_,
   buffer_size_ |-> buffer_size_, receive_buffer |-> receive_buffer]

\* The logical content of an engine: buffer_[(r + i) mod C] for i in [0, n).
Content(e) ==
  [i \in 1..e.buffer_size_ |-> e.buffer_[(e.buffer_index_ + i - 1) % BUFFER_SIZE]]

InRange(e) ==
  /\ e.buffer_index_ \in 0..(BUFFER_SIZE - 1)
  /\ e.buffer_size_ \in 0..BUFFER_SIZE

\* Calls are followed only while every index they use lies inside the arrays.
Live == ~ub /\ InRange(Self)

Commit(e) ==
  /\ buffer_' = e.buffer_
  /\ buffer_index_' = e.buffer_index_
  /\ buffer_size_' = e.buffer_size_
  /\ receive_buffer' = e.receive_buffer

\* What the caller saw of a call: its name, its argument, the count or result
\* it returned, the bytes copied to the caller; for an ingestion `ret` is the
\* number of bytes taken from the port and `lost` the number of buffered bytes
\* it displaced.
Call(op, arg, ret, result, data) ==
  [op |-> op, arg |-> arg, ret |-> ret, result |-> result, data |-> data,
   lost |-> 0]

\* ------------------------------------------------------------- the peer
\* What the peer puts on the link: filler bytes as in the tests (0xFF), frames
\* as sendObject writes them, frames damaged in transit, and marker bytes that
\* are plain data.
Gen(k) == [i \in 1..k |-> 255]

FrameOf(t, obj, le) ==
  sendObject([i \in 0..(2 * BUFFER_SIZE) |-> 0], 2 * BUFFER_SIZE + 1,
             TypeOf[t].T, TypeOf[t].id, obj, le, TRUE).written

\* One payload byte altered in transit (host_buffer[...] ^= 0x42 in the tests).
Damaged(frame) == [frame EXCEPT ![7] = Xor(frame[7], 66)]

\* A header announcing a payload of `len` bytes, followed by `have` of them.
Header(id, len, have) == <<Marker0, Marker1, id, 0, len, 0>> \o Gen(have)

Objects == [Simple |-> {<< <<42>> >>}, Word |-> {<< <<2, 66>> >>}]

Frames(le) ==
  {FrameOf("Simple", obj, le) : obj \in Objects["Simple"]}
    \cup {FrameOf("Word", obj, le) : obj \in Objects["Word"]}
    \cup {Damaged(FrameOf("Simple", obj, le)) : obj \in Objects["Simple"]}

\* A frame with a valid CRC whose payload is longer than the type registered
\* under its id takes.
Mistyped(le) ==
  object_frame(TypeOf["Word"].T, TypeOf["Simple"].id, << <<2, 66>> >>, le)

\* The first h bytes of the frame arrive with the g leading bytes, the rest later.
Lead(g, frame, h) ==
  IF h >= Len(frame) THEN << Gen(g) \o frame >>
  ELSE << Gen(g) \o SubSeq(frame, 1, h), SubSeq(frame, h + 1, Len(frame)) >>

\* Leading bytes that put the marker, the id field and the length field of the
\* frame that follows across the end of the array.
LeadLens == {0, 1, BUFFER_SIZE - 5, BUFFER_SIZE - 3, BUFFER_SIZE - 1}

Scenarios(le) ==
  {Lead(g, f, h) : g \in LeadLens, f \in Frames(le), h \in {1, 9}}
    \cup {<< f \o <<65, Marker0>>, <<Marker1, 1, 0>> >> : f \in Frames(le)}
    \cup {<< <<Marker1>> \o Gen(BUFFER_SIZE - 2) \o <<Marker0>>, <<Marker0, Marker1>> >>,
          << Header(1, BUFFER_SIZE, 2), Gen(BUFFER_SIZE) >>,
          << Header(7, 0, 0) \o <<1, 2>> >>,
          << Mistyped(le) >>}

\* buffer_ and obj_buffer_ have no initialiser: their first content is whatever
\* the memory holds.
Fills == {[i \in 0..(2 * BUFFER_SIZE) |-> 0],
          [i \in 0..(2 * BUFFER_SIZE) |-> IF i % 2 = 0 THEN Marker1 ELSE Marker0]}

Restrict(f, n) == [i \in 0..(n - 1) |-> f[i]]

\* The lengths callers pass to read and skip.
MaxLen == 1

Lens == 0..MaxLen \cup {BUFFER_SIZE}

\* ------------------------------------------------------------- Init and the calls
Init ==
  /\ is_little_endian \in BOOLEAN
  /\ \E fill \in Fills :
       /\ buffer_ = Restrict(fill, BUFFER_SIZE)
       /\ obj_buffer_ = Restrict(fill, SERIALIZATION_BUFFER_SIZE)
  /\ buffer_index_ = 0
  /\ buffer_size_ = 0
  /\ receive_buffer = <<>>
  /\ wire \in Scenarios(is_little_endian)
  /\ out = [t \in TypeNames |-> Default(TypeOf[t].T)]
  /\ last = Call("init", 0, 0, "", <<>>)
  /\ ub = FALSE

\* The next chunk reaches the port.
Arrive ==
  /\ Live
  /\ wire # <<>>
  /\ receive_buffer' = receive_buffer \o Head(wire)
  /\ wire' = Tail(wire)
  /\ last' = Call("arrive", 0, 0, "", <<>>)
  /\ UNCHANGED <<buffer_, obj_buffer_, buffer_index_, buffer_size_,
                 is_little_endian, out, ub>>

ProcessSerialData(overwrite_buffer) ==
  /\ Live
  /\ LET e1 == processSerialData(Self, overwrite_buffer)
         k  == Len(receive_buffer) - Len(e1.receive_buffer)
     IN /\ Commit(e1)
        /\ last' = [Call("processSerialData", IF overwrite_buffer THEN 1 ELSE 0,
                         k, "", <<>>)
                    EXCEPT !.lost = buffer_size_ + k - e1.buffer_size_]
  /\ UNCHANGED <<obj_buffer_, is_little_endian, wire, out, ub>>

Read(length) ==
  /\ Live
  /\ LET res == read(Self, length)
     IN /\ Commit(res.e)
        /\ last' = Call("read", length, res.ret, "", res.data)
        /\ ub' = res.overrun
  /\ UNCHANGED <<obj_buffer_, is_little_endian, wire, out>>

Skip(length) ==
  /\ Live
  /\ LET res == skip(Self, length)
     IN /\ Commit(res.e)
        /\ last' = Call("skip", length, res.ret, "", <<>>)
  /\ UNCHANGED <<obj_buffer_, is_little_endian, wire, out, ub>>

\* What the members laid out after obj_buffer_ may hold once it has overflowed.
Clobbered(x) == {x, -1, BUFFER_SIZE + 1}

\* What a readObject call leaves behind: res is the call, lin the same call with
\* room for the whole ring in the scratch buffer. A call that overflowed
\* obj_buffer_ is past its early returns: it ends with one of the results that
\* follow the copy, and with the members behind obj_buffer_ overwritten or not.
ReadObjectReturns(t, res, lin) ==
  IF ~res.overflow
  THEN /\ Commit(res.e)
       /\ obj_buffer_' = res.obj_buffer_
       /\ out' = [out EXCEPT ![t] = res.obj]
       /\ last' = Call("readObject", TypeOf[t].id, 0, res.result, <<>>)
       /\ ub' = FALSE
  ELSE /\ ub' = TRUE
       /\ buffer_' = lin.e.buffer_
       /\ receive_buffer' = lin.e.receive_buffer
       /\ buffer_index_' \in Clobbered(lin.e.buffer_index_)
       /\ buffer_size_' \in Clobbered(lin.e.buffer_size_)
       /\ obj_buffer_' = Restrict(lin.obj_buffer_, SERIALIZATION_BUFFER_SIZE)
       /\ out' = [out EXCEPT ![t] = lin.obj]
       /\ \E r \in {"Success", "CrcError", "ObjectSizeMismatch"} :
            last' = Call("readObject", TypeOf[t].id, 0, r, <<>>)

ReadObject(t) ==
  /\ Live
  /\ ReadObjectReturns(
       t,
       readObject(Self, obj_buffer_, TypeOf[t].T, TypeOf[t].id, out[t],
                  is_little_endian),
       readObject(Self, Restrict([i \in 0..BUFFER_SIZE |-> 0], BUFFER_SIZE),
                  TypeOf[t].T, TypeOf[t].id, out[t], is_little_endian))
  /\ UNCHANGED <<is_little_endian, wire>>

SkipObject ==
  /\ Live
  /\ LET res == skipObject(Self, is_little_endian)
     IN /\ Commit(res.e)
        /\ last' = Call("skipObject", 0, 0, res.result, <<>>)
  /\ UNCHANGED <<obj_buffer_, is_little_endian, wire, out, ub>>

ClearBuffer ==
  /\ Live
  /\ Commit(clearBuffer(Self))
  /\ last' = Call("clearBuffer", 0, 0, "", <<>>)
  /\ UNCHANGED <<obj_buffer_, is_little_endian, wire, out, ub>>

Next ==
  \/ Arrive
  \/ \E overwrite_buffer \in BOOLEAN : ProcessSerialData(overwrite_buffer)
  \/ \E length \in Lens \cup {SIZE_MAX} : Read(length)
  \/ \E length \in Lens \cup {SIZE_MAX} : Skip(length)
  \/ \E t \in TypeNames : ReadObject(t)
  \/ SkipObject
  \/ ClearBuffer

Spec == Init /\ [][Next]_vars

\* A receiver that never ingests in overwrite mode.
NextNonOverwrite ==
  \/ Arrive
  \/ ProcessSerialData(FALSE)
  \/ \E length \in Lens \cup {SIZE_MAX} : Read(length)
  \/ \E length \in Lens \cup {SIZE_MAX} : Skip(length)
  \/ \E t \in TypeNames : ReadObject(t)
  \/ SkipObject
  \/ ClearBuffer

SpecNonOverwrite == Init /\ [][NextNonOverwrite]_vars

\* ------------------------------------------------------------- the sending side
\* A CrossTalker whose scratch buffer takes frames of more than one payload
\* byte, and the objects its caller sends: the test objects, with narrower
\* fields and shorter containers.
SEND_SERIALIZATION_BUFFER_SIZE == 2 * BUFFER_SIZE + 1

SendTypeNames ==
  {"TestObjectSimple", "TestObjectWithString", "TestWithSimpleVectorAndArray",
   "TestWithComplexVectorAndArray", "CommStatus"}

SendTypeOf ==
  [TestObjectSimple |->
     [id |-> 1, T |-> Record(<<Scalar(4), Scalar(4)>>)],
   TestObjectWithString |->
     [id |-> 2, T |-> Record(<<Scalar(4), String>>)],
   TestWithSimpleVectorAndArray |->
     [id |-> 3, T |-> Record(<<Scalar(2), Vector(Scalar(2)), Array(Scalar(1), 2)>>)],
   TestWithComplexVectorAndArray |->
     [id |-> 4, T |-> Record(<<String, Vector(String), Array(Vector(Scalar(2)), 1)>>)],
   CommStatus |->
     [id |-> 6, T |-> Record(<<Scalar(8), Scalar(4), Scalar(1)>>)]]

\* The longest string a TestObjectWithString can carry and still be sent.
LongestName == SEND_SERIALIZATION_BUFFER_SIZE - 14

SendObjects ==
  [TestObjectSimple |->
     {<< <<1, 2, 3, 4>>, <<0, 0, 128, 63>> >>},
   TestObjectWithString |->
     {<< <<7, 1, 0, 0>>, name >> :
        name \in {<<>>, <<104, 105>>, Gen(LongestName), Gen(LongestName + 1)}},
   TestWithSimpleVectorAndArray |->
     {<< <<219, 15>>, numbers, << <<4>>, <<5>> >> >> :
        numbers \in {<<>>, << <<1, 0>>, <<2, 1>> >>}},
   TestWithComplexVectorAndArray |->
     {<< <<>>, <<>>, << <<>> >> >>,
      << <<97>>, << <<98, 99>> >>, << << <<16, 1>> >> >> >>},
   CommStatus |->
     {<< <<1, 2, 3, 4, 5, 6, 7, 200>>, <<0, 0, 92, 194>>, <<10>> >>}]

InitSend ==
  /\ is_little_endian \in BOOLEAN
  /\ \E fill \in Fills :
       /\ buffer_ = Restrict(fill, BUFFER_SIZE)
       /\ obj_buffer_ = Restrict(fill, SEND_SERIALIZATION_BUFFER_SIZE)
  /\ buffer_index_ = 0
  /\ buffer_size_ = 0
  /\ receive_buffer = <<>>
  /\ wire = <<>>
  /\ out \in [SendTypeNames -> UNION {SendObjects[t] : t \in SendTypeNames}]
  /\ \A t \in SendTypeNames : out[t] \in SendObjects[t]
  /\ last = Call("init", 0, 0, "", <<>>)
  /\ ub = FALSE

\* sendObject( obj ): the frame goes to the port, obj_buffer_ keeps it; `ret` is
\* the number of serial_->write calls.
SendObjectReturns(id, res) ==
  /\ obj_buffer_' = res.obj_buffer_
  /\ last' = Call("sendObject", id, Len(res.calls), res.result, res.written)

SendObject(t, write_ok) ==
  /\ Live
  /\ SendObjectReturns(SendTypeOf[t].id,
                       sendObject(obj_buffer_, SEND_SERIALIZATION_BUFFER_SIZE,
                                  SendTypeOf[t].T, SendTypeOf[t].id, out[t],
                                  is_little_endian, write_ok))
  /\ UNCHANGED <<buffer_, buffer_index_, buffer_size_, is_little_endian,
                 receive_buffer, wire, out, ub>>

NextSend == \E t \in SendTypeNames, write_ok \in BOOLEAN : SendObject(t, write_ok)

SpecSend == InitSend /\ [][NextSend]_vars

\* ------------------------------------------------------------- both directions
\* A CrossTalker that receives and also sends the objects it holds, through
\* the one obj_buffer_.
\* A sendObject that ingests from the port before it sends.
SendBack_ingesting(t, write_ok) ==
  /\ Live
  /\ SendObjectReturns(TypeOf[t].id,
                       sendObject(obj_buffer_, SERIALIZATION_BUFFER_SIZE,
                                  TypeOf[t].T, TypeOf[t].id, out[t],
                                  is_little_endian, write_ok))
  /\ Commit(processSerialData(Self, FALSE))
  /\ UNCHANGED <<is_little_endian, wire, out, ub>>

SendBack(t, write_ok) ==
  /\ Live
  /\ SendObjectReturns(TypeOf[t].id,
                       sendObject(obj_buffer_, SERIALIZATION_BUFFER_SIZE,
                                  TypeOf[t].T, TypeOf[t].id, out[t],
                                  is_little_endian, write_ok))
  /\ UNCHANGED <<buffer_, buffer_index_, buffer_size_, is_little_endian,
                 receive_buffer, wire, out, ub>>

NextDuplex ==
  \/ Arrive
  \/ ProcessSerialData(FALSE)
  \/ \E length \in {1, BUFFER_SIZE} : Skip(length)
  \/ \E t \in TypeNames : ReadObject(t)
  \/ \E t \in TypeNames, write_ok \in BOOLEAN : SendBack(t, write_ok)

SpecDuplex == Init /\ [][NextDuplex]_vars

\* ------------------------------------------------------------- damaged frames
\* A link that alters one payload byte of a frame: every position of the
\* payload, every other value of the byte, with the frame at the start of the
\* array or across its end.
DamagedAt(frame, p, v) == [frame EXCEPT ![p] = v]

DamagedCopies(frame) ==
  UNION {{DamagedAt(frame, p, v) : v \in (0..255) \ {frame[p]}} :
           p \in 7..(Len(frame) - 2)}

DamagedFrames(le) ==
  UNION {UNION {DamagedCopies(FrameOf(t, obj, le)) : obj \in Objects[t]} :
           t \in TypeNames}

InitDamage ==
  /\ is_little_endian \in BOOLEAN
  /\ \E fill \in Fills :
       /\ buffer_ = Restrict(fill, BUFFER_SIZE)
       /\ obj_buffer_ = Restrict(fill, SERIALIZATION_BUFFER_SIZE)
  /\ buffer_index_ = 0
  /\ buffer_size_ = 0
  /\ receive_buffer = <<>>
  /\ wire \in {<< Gen(g) \o f >> :
                 g \in {0, BUFFER_SIZE - 5}, f \in DamagedFrames(is_little_endian)}
  /\ out = [t \in TypeNames |-> Default(TypeOf[t].T)]
  /\ last = Call("init", 0, 0, "", <<>>)
  /\ ub = FALSE

NextDamage ==
  \/ Arrive
  \/ ProcessSerialData(FALSE)
  \/ Skip(BUFFER_SIZE)
  \/ \E t \in TypeNames : ReadObject(t)

SpecDamage == InitDamage /\ [][NextDamage]_vars

\* ------------------------------------------------------------- the codec alone
\* compute_size and serialize applied, as sendObject applies them, to values of
\* every shape: the scalars, the containers and the test objects.
MaxItems == 2

TestObjectSimple == Record(<<Scalar(4), Scalar(4)>>)

TestObjectWithString == Record(<<Scalar(4), String>>)

TestWithSimpleVectorAndArray ==
  Record(<<Scalar(4), Vector(Scalar(4)), Array(Scalar(8), 3)>>)

TestWithComplexVectorAndArray ==
  Record(<<String, Vector(String), Array(Vector(Scalar(4)), 3)>>)

TestWithClassVectorAndArray ==
  Record(<<Scalar(2), Vector(TestWithComplexVectorAndArray),
           Array(TestObjectWithString, 3)>>)

CommStatus ==
  Record(<<Scalar(8), Scalar(4), Scalar(4), Scalar(4), Scalar(1), Scalar(1),
           Scalar(1), Scalar(1), Scalar(1), Scalar(1)>>)

CodecShapes ==
  {Scalar(1), Scalar(2), Scalar(4), Scalar(8), String,
   Vector(Scalar(1)), Vector(String), Array(Scalar(2), 2), Array(String, 2),
   TestObjectSimple, TestObjectWithString, TestWithSimpleVectorAndArray,
   TestWithComplexVectorAndArray, TestWithClassVectorAndArray, CommStatus}

\* Values of shape T: two bit patterns of a scalar, strings and vectors of up
\* to MaxItems items, containers whose items differ in size, every combination
\* of the fields of a record.
RECURSIVE ValuesOf(_)
ValuesOf(T) ==
  LET Mixed(n, e) == [i \in 1..n |-> IF i % 2 = 1 THEN e ELSE Default(T.e[1])]
      Members[k \in 0..Len(T.e)] ==
        IF k = 0 THEN {<<>>}
        ELSE {Append(r, x) : r \in Members[k - 1], x \in ValuesOf(T.e[k])}
  IN CASE T.k = "scalar" -> {[i \in 1..T.s |-> 0], [i \in 1..T.s |-> 127 + i]}
       [] T.k = "string" -> {[i \in 1..n |-> 96 + i] : n \in 0..MaxItems}
       [] T.k = "vector" -> {Mixed(n, e) : n \in 0..MaxItems, e \in ValuesOf(T.e[1])}
       [] T.k = "array"  -> {Mixed(T.s, e) : e \in ValuesOf(T.e[1])}
       [] T.k = "record" -> Members[Len(T.e)]

InitCodec ==
  /\ is_little_endian \in BOOLEAN
  /\ \E fill \in Fills :
       /\ buffer_ = Restrict(fill, BUFFER_SIZE)
       /\ obj_buffer_ = Restrict(fill, SERIALIZATION_BUFFER_SIZE)
  /\ buffer_index_ = 0
  /\ buffer_size_ = 0
  /\ receive_buffer = <<>>
  /\ wire = <<>>
  /\ out \in UNION {{[T |-> T, v |-> v] : v \in ValuesOf(T)} : T \in CodecShapes}
  /\ last = Call("init", 0, 0, "", <<>>)
  /\ ub = FALSE

\* size = compute_size( obj ); serialized_size = serialize( obj, data ): `arg`
\* is the first, `ret` the second, `data` the stores serialize made.
SerializeReturns(size, res) ==
  last' = Call("serialize", size, res.n, "", res.w)

Serialize ==
  /\ SerializeReturns(compute_size(out.T, out.v),
                      serialize_into(out.T, out.v, 0, is_little_endian))
  /\ UNCHANGED <<buffer_, obj_buffer_, buffer_index_, buffer_size_,
                 is_little_endian, receive_buffer, wire, out, ub>>

\* The memory at data after the stores w: cell i holds what the last store
\* that covers it wrote.
stored_data(w, size) ==
  [i \in 1..size |->
     LET k == CHOOSE k \in 1..Len(w) :
                /\ w[k].at < i /\ i <= w[k].at + Len(w[k].bytes)
                /\ \A j \in (k + 1)..Len(w) :
                     ~(w[j].at < i /\ i <= w[j].at + Len(w[j].bytes))
     IN w[k].bytes[i - w[k].at]]

\* An object whose scalars are all ones and whose containers hold more items
\* than any value sent: what the caller's object may hold before a decode.
RECURSIVE Filled(_)
Filled(T) ==
  CASE T.k = "scalar" -> [i \in 1..T.s |-> 255]
    [] T.k = "string" -> [i \in 1..(MaxItems + 1) |-> 255]
    [] T.k = "vector" -> [i \in 1..(MaxItems + 1) |-> Filled(T.e[1])]
    [] T.k = "array"  -> [i \in 1..T.s |-> Filled(T.e[1])]
    [] T.k = "record" -> [i \in 1..Len(T.e) |-> Filled(T.e[i])]

\* deserialize( data, length, obj ) on the bytes serialize stored, with
\* length = serialized_size: `arg` the length, `ret` the value returned,
\* `data` the object afterwards.
DeserializeReturns(length, res) ==
  last' = Call("deserialize", length, res.n, "", res.v)

Deserialize(obj) ==
  /\ last.op = "serialize"
  /\ DeserializeReturns(last.ret,
                        deserialize(out.T, stored_data(last.data, last.ret), 0,
                                    last.ret, obj, is_little_endian))
  /\ UNCHANGED <<buffer_, obj_buffer_, buffer_index_, buffer_size_,
                 is_little_endian, receive_buffer, wire, out, ub>>

NextCodec ==
  \/ Serialize
  \/ \E obj \in {Default(out.T), Filled(out.T)} : Deserialize(obj)

SpecCodec == InitCodec /\ [][NextCodec]_vars

\* ------------------------------------------------------------- decoding
\* A receiver whose types have more than one field, a string, a vector or a
\* fixed array, and a peer whose frames carry a valid CRC and any payload: a
\* sender built with other versions of the types.
DecodeTypeNames == {"Pair", "Named", "Text", "List", "Fixed"}

DecodeTypeOf ==
  [Pair  |-> [id |-> 1, T |-> Record(<<Scalar(2), Scalar(1)>>)],
   Named |-> [id |-> 2, T |-> Record(<<Scalar(1), String>>)],
   Text  |-> [id |-> 3, T |-> Record(<<String, Scalar(2)>>)],
   List  |-> [id |-> 4, T |-> Record(<<Vector(Scalar(1))>>)],
   Fixed |-> [id |-> 5, T |-> Record(<<Array(Scalar(1), 2)>>)]]

\* The longest payload whose frame the buffer holds.
MaxPayload == BUFFER_SIZE - 8

\* Payloads of every length the buffer takes; the second byte, the high byte
\* of a count that leads the payload, is 0, so that no sequence is resized to
\* more than a few items.
Payloads ==
  {p \in UNION {[1..L -> {0, 1, 2, 5}] : L \in 0..MaxPayload} :
     Len(p) >= 2 => p[2] = 0}

\* 0x02 0x42, id, the payload's length, the payload and its CRC.
PeerFrame(id, payload) ==
  LET head == <<Marker0, Marker1>> \o Digits16(id) \o Digits16(Len(payload))
                \o payload
  IN head \o Digits16(compute_crc16(head))

\* The ids the frames carry: those of the receiver's types, and 0xFFFF, which
\* no sender can be built to send.
PeerIds == {DecodeTypeOf[t].id : t \in DecodeTypeNames} \cup {65535}

InitDecode ==
  /\ is_little_endian \in BOOLEAN
  /\ \E fill \in Fills :
       /\ buffer_ = Restrict(fill, BUFFER_SIZE)
       /\ obj_buffer_ = Restrict(fill, SERIALIZATION_BUFFER_SIZE)
  /\ buffer_index_ = 0
  /\ buffer_size_ = 0
  /\ receive_buffer = <<>>
  /\ wire \in {<< PeerFrame(id, payload) >> : id \in PeerIds, payload \in Payloads}
  /\ out \in {[t \in DecodeTypeNames |-> Default(DecodeTypeOf[t].T)],
              [t \in DecodeTypeNames |-> Filled(DecodeTypeOf[t].T)]}
  /\ last = Call("init", 0, 0, "", <<>>)
  /\ ub = FALSE

\* readObject( obj ) for an object of one of these types.
DecodeObjectReturns(t, res, lin) ==
  IF ~res.overflow
  THEN /\ Commit(res.e)
       /\ obj_buffer_' = res.obj_buffer_
       /\ out' = [out EXCEPT ![t] = res.obj]
       /\ last' = Call("readObject", DecodeTypeOf[t].id, 0, res.result, <<>>)
       /\ ub' = FALSE
  ELSE /\ ub' = TRUE
       /\ buffer_' = lin.e.buffer_
       /\ receive_buffer' = lin.e.receive_buffer
       /\ buffer_index_' \in Clobbered(lin.e.buffer_index_)
       /\ buffer_size_' \in Clobbered(lin.e.buffer_size_)
       /\ obj_buffer_' = Restrict(lin.obj_buffer_, SERIALIZATION_BUFFER_SIZE)
       /\ out' = [out EXCEPT ![t] = lin.obj]
       /\ \E r \in {"Success", "CrcError", "ObjectSizeMismatch"} :
            last' = Call("readObject", DecodeTypeOf[t].id, 0, r, <<>>)

\* The calls of deserialize that readObject<t> makes on the frame at the head
\* of e1, once the frame has passed the CRC check.
DecodeCalls(t, e1) ==
  deserialize_calls(DecodeTypeOf[t].T, Content(e1), 6,
                    _readObjectSize(e1, e1.buffer_index_, is_little_endian),
                    is_little_endian)

\* A build with assertions: a failed assert( item_count == N ) ends the
\* program inside readObject; no call returns or follows.
DecodeObjectAborts(t, res, e1) ==
  /\ ~res.overflow
  /\ res.result \in {"Success", "ObjectSizeMismatch"}
  /\ ~deserialize_asserted(DecodeCalls(t, e1), Content(e1), is_little_endian)
  /\ ub' = TRUE
  /\ last' = Call("readObject", DecodeTypeOf[t].id, 0, "abort", <<>>)
  /\ UNCHANGED <<buffer_, obj_buffer_, buffer_index_, buffer_size_,
                 receive_buffer, out>>

\* The assertion is compiled out (NDEBUG), or the build keeps it.
DecodeObject(t) ==
  /\ Live
  /\ \/ DecodeObjectReturns(
          t,
          readObject(Self, obj_buffer_, DecodeTypeOf[t].T, DecodeTypeOf[t].id, out[t],
                     is_little_endian),
          readObject(Self, Restrict([i \in 0..BUFFER_SIZE |-> 0], BUFFER_SIZE),
                     DecodeTypeOf[t].T, DecodeTypeOf[t].id, out[t], is_little_endian))
     \/ DecodeObjectAborts(
          t,
          readObject(Self, obj_buffer_, DecodeTypeOf[t].T, DecodeTypeOf[t].id, out[t],
                     is_little_endian),
          _processSerialDataUntil(Self, buffer_index_))
  /\ UNCHANGED <<is_little_endian, wire>>

NextDecode ==
  \/ Arrive
  \/ ProcessSerialData(FALSE)
  \/ \E t \in DecodeTypeNames : DecodeObject(t)

SpecDecode == InitDecode /\ [][NextDecode]_vars

\* ============================================================= claims
\* Reading aids for the claims: the first k and the last k elements of a sequence.
FirstN(s, k) == SubSeq(s, 1, Min(k, Len(s)))

LastN(s, k) == SubSeq(s, Len(s) - Min(k, Len(s)) + 1, Len(s))

DropN(s, k) == SubSeq(s, Min(k, Len(s)) + 1, Len(s))

\* The bytes the port handed to the engine in this step.
Ingested == FirstN(receive_buffer, Len(receive_buffer) - Len(receive_buffer'))

\* The offset of the first 0x02 0x42 pair wholly inside s, or -1.
FirstPair(s) ==
  LET at == {i \in 1..(Len(s) - 1) : s[i] = Marker0 /\ s[i + 1] = Marker1}
  IN IF at = {} THEN -1 ELSE (CHOOSE i \in at : \A j \in at : i <= j) - 1

\* C1: after any sequence of calls, with any bytes arriving at the port,
\* 0 <= n <= C, 0 <= r < C, and n = 0 implies r = 0.
C1_RingInvariant ==
  /\ 0 <= buffer_size_ /\ buffer_size_ <= BUFFER_SIZE
  /\ 0 <= buffer_index_ /\ buffer_index_ < BUFFER_SIZE
  /\ (buffer_size_ = 0 => buffer_index_ = 0)

\* C2: in every state in which the engine's indices are inside the array,
\* hasObject() implies available() = 0, also when generic bytes follow the frame.
C2_ObjectHidesGeneric ==
  Live => (hasObject(Self) => available(Self) = 0)

\* C2 witness: after an ingestion a complete frame is at the head and more
\* bytes follow it in the buffer.
C2_Witness ==
  /\ Live
  /\ last.op = "processSerialData"
  /\ hasObject(Self)
  /\ buffer_size_ >= 6
  /\ buffer_size_ > 8 + _readObjectSize(Self, buffer_index_, is_little_endian)
  /\ available(Self) = 0

\* The generic-byte count of the specification, on the logical content alone.
RefAvailable(s) ==
  IF Len(s) = 0 THEN 0
  ELSE IF FirstPair(s) # -1 THEN FirstPair(s)
  ELSE IF s[Len(s)] = Marker0 THEN Len(s) - 1
  ELSE Len(s)

\* C10: for every r, n and buffer content, available() is the reference
\* generic-byte count of the logical content: the offset of the first pair
\* inside the n buffered bytes, else n - 1 if the last buffered byte is 0x02,
\* else n; cells outside the live content do not count.
C10_AvailableIsReference ==
  Live => available(Self) = RefAvailable(Content(Self))

\* C10 witness: the buffer is full, its last live byte is 0x02 and its first
\* live byte is 0x42 (a pair only across the seam), and no pair lies inside.
C10_Witness ==
  /\ Live
  /\ buffer_size_ = BUFFER_SIZE
  /\ Content(Self)[1] = Marker1
  /\ Content(Self)[BUFFER_SIZE] = Marker0
  /\ FirstPair(Content(Self)) = -1
  /\ available(Self) = BUFFER_SIZE - 1

\* C3: for a receiver that only ingests in non-overwrite mode, the bytes leaving
\* the ring (returned by read, discarded by skip, consumed with a frame), in call
\* order, are a prefix of the bytes delivered by the port: in every step the
\* bytes that leave are the oldest of the buffered bytes followed by the bytes
\* ingested in that step, read returns exactly those, and the rest stays in
\* order, so nothing is lost, duplicated or reordered.
C3_FifoOrder ==
  [][Live =>
       LET all == Content(Self) \o Ingested
           k   == Len(all) - buffer_size_'
       IN /\ k >= 0
          /\ Content(Self') = DropN(all, k)
          /\ last'.op = "read" => last'.data = FirstN(all, k)
          /\ last'.op = "skip" => last'.ret = k]_vars

\* C4: if sendObject(v) succeeds (8 + L <= S) and the receiver's buffered content
\* is exactly that frame, then hasObject(), getObjectId() = id(T), and
\* readObject<T> returns Success with an object equal to v and removes the frame.
C4_RoundTrip ==
  Live =>
    \A t \in TypeNames : \A obj \in Objects[t] :
      LET sent == sendObject(obj_buffer_, SERIALIZATION_BUFFER_SIZE, TypeOf[t].T,
                             TypeOf[t].id, obj, is_little_endian, TRUE)
          res  == readObject(Self, obj_buffer_, TypeOf[t].T, TypeOf[t].id, out[t],
                             is_little_endian)
          e1   == _processSerialDataUntil(Self, buffer_index_)
      IN (sent.result = "Success" /\ Content(Self) = sent.written) =>
           /\ hasObject(Self)
           /\ getObjectId(Self, is_little_endian) = TypeOf[t].id
           /\ ~res.overflow
           /\ res.result = "Success"
           /\ res.obj = obj
           /\ Content(res.e) = DropN(Content(e1), Len(sent.written))

\* The same logical content stored from cell 0 on.
Contiguous(e) ==
  [e EXCEPT !.buffer_index_ = 0,
            !.buffer_ = [i \in DOMAIN e.buffer_ |->
                           IF i < e.buffer_size_ THEN Content(e)[i + 1] ELSE 0]]

\* C5: for the same logical content beginning with a complete frame, and for
\* every read index, hasObject(), getObjectId(), the payload length, the result
\* of readObject and the decoded object are those of the frame stored
\* contiguously, wherever the end of the array splits the frame.
C5_WrapIndependent ==
  Live =>
    LET c == Contiguous(Self)
        le == is_little_endian
    IN (/\ hasObject(c)
        /\ buffer_size_ >= 6
        /\ buffer_size_ >= 8 + _readObjectSize(c, 0, le)) =>
         /\ hasObject(Self)
         /\ getObjectId(Self, le) = getObjectId(c, le)
         /\ _readObjectSize(Self, buffer_index_, le) = _readObjectSize(c, 0, le)
         /\ \A t \in TypeNames :
              LET a == readObject(Self, obj_buffer_, TypeOf[t].T, TypeOf[t].id,
                                  out[t], le)
                  b == readObject(c, obj_buffer_, TypeOf[t].T, TypeOf[t].id,
                                  out[t], le)
              IN ~a.overflow /\ a.result = b.result /\ a.obj = b.obj

\* The engine after the step, and the number of bytes the step took from the port.
SelfNext ==
  [buffer_ |-> buffer_', buffer_index_ |-> buffer_index_',
   buffer_size_ |-> buffer_size_', receive_buffer |-> receive_buffer']

Taken == Len(receive_buffer) - Len(receive_buffer')

\* C6: processSerialData(false) leaves r unchanged and the n buffered bytes
\* unchanged and in place, appends at most C - n bytes taken from the front of
\* the port stream, leaves the further bytes in the port, and does nothing
\* when n = C.
C6_NonOverwriteAppends ==
  [][(Live /\ last'.op = "processSerialData" /\ last'.arg = 0) =>
       /\ buffer_index_' = buffer_index_
       /\ \A i \in 0..(buffer_size_ - 1) :
            buffer_'[(buffer_index_ + i) % BUFFER_SIZE]
              = buffer_[(buffer_index_ + i) % BUFFER_SIZE]
       /\ Taken >= 0 /\ Taken <= BUFFER_SIZE - buffer_size_
       /\ buffer_size_' = buffer_size_ + Taken
       /\ Content(SelfNext) = Content(Self) \o FirstN(receive_buffer, Taken)
       /\ receive_buffer' = DropN(receive_buffer, Taken)
       /\ buffer_size_ = BUFFER_SIZE =>
            UNCHANGED <<buffer_, buffer_index_, buffer_size_, receive_buffer>>]_vars

\* C6 witness: a non-overwrite ingestion filled a buffer whose content wraps
\* and had to leave bytes in the port.
C6_Witness ==
  /\ Live
  /\ last.op = "processSerialData" /\ last.arg = 0 /\ last.ret > 0
  /\ buffer_size_ = BUFFER_SIZE
  /\ buffer_index_ > 0
  /\ receive_buffer # <<>>

\* C7: processSerialData(true) that reads k bytes into a buffer holding X of
\* length n leaves exactly the last min(C, n + k) bytes of X followed by the k
\* new bytes, in order; nothing is dropped when k <= C - n.
C7_OverwriteKeepsNewest ==
  [][(Live /\ last'.op = "processSerialData" /\ last'.arg = 1) =>
       LET X   == Content(Self)
           new == FirstN(receive_buffer, Taken)
       IN /\ Taken >= 0
          /\ receive_buffer' = DropN(receive_buffer, Taken)
          /\ buffer_size_' = Min(BUFFER_SIZE, buffer_size_ + Taken)
          /\ Content(SelfNext) = LastN(X \o new, Min(BUFFER_SIZE, buffer_size_ + Taken))
          /\ Taken <= BUFFER_SIZE - buffer_size_ => Content(SelfNext) = X \o new]_vars

\* C7 witness: an overwrite ingestion displaced buffered bytes.
C7_Witness ==
  /\ Live
  /\ last.op = "processSerialData" /\ last.arg = 1
  /\ last.ret > 0
  /\ last.lost > 0
  /\ buffer_size_ = BUFFER_SIZE

\* C8: processSerialData(true) on a non-empty buffer reads at most C - 1 bytes,
\* so the last byte buffered before the call is still buffered, just before
\* the new bytes; a 0x02 there whose 0x42 arrives in this call is found by the
\* scan as the start of an object. On an empty buffer it reads at most C bytes.
C8_OverwriteReservesTail ==
  [][(Live /\ last'.op = "processSerialData" /\ last'.arg = 1) =>
       LET p == buffer_size_' - Taken - 1
       IN /\ buffer_size_ = 0 => Taken <= BUFFER_SIZE
          /\ buffer_size_ > 0 =>
               /\ Taken <= BUFFER_SIZE - 1
               /\ p >= 0
               /\ Content(SelfNext)[p + 1] = Content(Self)[buffer_size_]
               /\ (/\ Content(Self)[buffer_size_] = Marker0
                   /\ Taken >= 1
                   /\ receive_buffer[1] = Marker1) =>
                    /\ _findNextObjectIndex(SelfNext, buffer_index_',
                                            buffer_index_' + buffer_size_') # -1
                    /\ available(SelfNext) <= p]_vars

\* C8 witness: the buffer ended in 0x02, the call read C - 1 bytes beginning
\* with 0x42 and displaced older bytes, and the marker is at the head now.
C8_Witness ==
  /\ Live
  /\ last.op = "processSerialData" /\ last.arg = 1
  /\ last.ret = BUFFER_SIZE - 1
  /\ last.lost > 0
  /\ Content(Self)[1] = Marker0
  /\ Content(Self)[2] = Marker1
  /\ hasObject(Self)

\* The content has no 0x02 0x42 pair and its last byte is 0x02.
PendingTail(e) ==
  /\ e.buffer_size_ >= 1
  /\ FirstPair(Content(e)) = -1
  /\ Content(e)[e.buffer_size_] = Marker0

\* C9: while the content has no pair and ends in 0x02, available() = n - 1 and
\* no read or skip removes that byte; when an ingestion then appends bytes, the
\* 0x02 is the start the scan finds if the first of them is 0x42, and is
\* counted as generic otherwise.
C9_TailMarkerHeld ==
  [][(Live /\ PendingTail(Self)) =>
       /\ available(Self) = buffer_size_ - 1
       /\ (last'.op \in {"read", "skip"} /\ Taken = 0) =>
            /\ buffer_size_' >= 1
            /\ (buffer_index_' + buffer_size_') % BUFFER_SIZE
                 = (buffer_index_ + buffer_size_) % BUFFER_SIZE
            /\ buffer_' = buffer_
       /\ (last'.op = "processSerialData" /\ Taken >= 1) =>
            LET p == buffer_size_' - Taken - 1
            IN IF receive_buffer[1] = Marker1
               THEN /\ available(SelfNext) = p
                    /\ _findNextObjectIndex(SelfNext, buffer_index_',
                                            buffer_index_' + buffer_size_')
                         = (buffer_index_' + p) % BUFFER_SIZE
               ELSE available(SelfNext) > p]_vars

\* C9 witness: a read asked for more than was on offer, returned the bytes
\* before the trailing 0x02 and left that byte alone in the buffer.
C9_Witness ==
  /\ Live
  /\ last.op = "read" /\ last.arg = BUFFER_SIZE /\ last.ret >= 1
  /\ Content(Self) = <<Marker0>>
  /\ available(Self) = 0

\* C11: read(dst, len) returns m = min(len, available()), hands the caller the
\* first m bytes of the content in order, removes exactly those (n decreases by
\* m, r advances by m modulo C, or is reset when the buffer empties), leaves the
\* other bytes as they were and takes nothing from the port; read(dst, 0)
\* returns 0 and changes nothing.
C11_ReadExact ==
  [][(Live /\ last'.op = "read") =>
       LET m == Min(last'.arg, available(Self))
       IN /\ last'.ret = m
          /\ last'.data = FirstN(Content(Self), m)
          /\ buffer_size_' = buffer_size_ - m
          /\ buffer_index_' = IF buffer_size_' = 0 THEN 0
                              ELSE (buffer_index_ + m) % BUFFER_SIZE
          /\ Content(SelfNext) = DropN(Content(Self), m)
          /\ buffer_' = buffer_
          /\ receive_buffer' = receive_buffer
          /\ last'.arg = 0 => UNCHANGED <<buffer_index_, buffer_size_>>]_vars

\* C12: skip(len) first makes one non-overwrite ingestion pass, then discards
\* exactly min(len, available()) bytes from the head and returns that count; it
\* discards no byte at or after the first 0x02 0x42 pair, so with an object at
\* the head it returns 0 and leaves the frame in place.
C12_SkipExact ==
  [][(Live /\ last'.op = "skip") =>
       LET e1 == processSerialData(Self, FALSE)
           m  == Min(last'.arg, available(e1))
       IN /\ receive_buffer' = e1.receive_buffer
          /\ last'.ret = m
          /\ Content(SelfNext) = DropN(Content(e1), m)
          /\ FirstPair(Content(e1)) # -1 => m <= FirstPair(Content(e1))
          /\ FirstPair(Content(e1)) = 0 =>
               (last'.ret = 0 /\ Content(SelfNext) = Content(e1)
                  /\ buffer_index_' = buffer_index_)]_vars

\* At least four bytes are buffered and the first two are 0x02 0x42.
FrameHead(s) == Len(s) >= 4 /\ s[1] = Marker0 /\ s[2] = Marker1

\* C13: readObject and skipObject return NoObjectAvailable exactly when
\* hasObject() is false at the call (no frame head at r), and then the ring
\* (r, n, the array), the output object, the scratch buffer and the port are
\* untouched: nothing is ingested.
C13_NoObjectAvailable ==
  [][(Live /\ last'.op \in {"readObject", "skipObject"}) =>
       /\ hasObject(Self) <=> FrameHead(Content(Self))
       /\ last'.result = "NoObjectAvailable" <=> ~FrameHead(Content(Self))
       /\ last'.result = "NoObjectAvailable" =>
            UNCHANGED <<buffer_, buffer_index_, buffer_size_, receive_buffer,
                        obj_buffer_, out>>]_vars

\* C13 witness: readObject answered NoObjectAvailable while bytes were waiting
\* in the port and generic bytes were buffered.
C13_Witness ==
  /\ Live
  /\ last.op = "readObject" /\ last.result = "NoObjectAvailable"
  /\ buffer_size_ > 0
  /\ receive_buffer # <<>>
  /\ ~hasObject(Self)

\* The header fields of a frame at the head of content s, as the wire format
\* defines them (little-endian), and whether the frame is wholly buffered.
WireId(s) == s[3] + 256 * s[4]

WireLength(s) == s[5] + 256 * s[6]

Complete(s) == FrameHead(s) /\ Len(s) >= 6 /\ Len(s) >= 8 + WireLength(s)

\* C14: a readObject or skipObject that returns NotEnoughData leaves the frame
\* untouched (r unchanged, every buffered byte still at its offset, n not
\* smaller); and once the missing bytes are buffered a call evaluates the
\* frame: skipObject does not answer NotEnoughData, and readObject for the
\* frame's type answers Success, CrcError or ObjectSizeMismatch.
C14_NotEnoughDataKeepsFrame ==
  [][Live =>
       /\ (last'.op \in {"readObject", "skipObject"}
             /\ last'.result = "NotEnoughData") =>
            /\ buffer_index_' = buffer_index_
            /\ buffer_size_' >= buffer_size_
            /\ FirstN(Content(SelfNext), buffer_size_) = Content(Self)
       /\ Complete(Content(Self)) =>
            /\ skipObject(Self, is_little_endian).result # "NotEnoughData"
            /\ \A t \in TypeNames :
                 TypeOf[t].id = WireId(Content(Self)) =>
                   readObject(Self, obj_buffer_, TypeOf[t].T, TypeOf[t].id, out[t],
                              is_little_endian).result
                     \in {"Success", "CrcError", "ObjectSizeMismatch"}]_vars

\* C15: a frame whose id is not id(T) is retained: readObject<T> answers
\* ObjectIdMismatch only for such a frame, and with the frame header buffered at
\* the head, readObject<T>, read, skip and processSerialData(false) leave r and
\* the buffered bytes as they are and getObjectId() keeps returning the frame's
\* id; readObject<U> for the type U the frame was sent for (frame complete, CRC
\* valid) returns Success.
C15_IdMismatchKeepsFrame ==
  [][Live =>
       /\ (last'.op = "readObject" /\ last'.result = "ObjectIdMismatch") =>
            (FrameHead(Content(Self)) /\ WireId(Content(SelfNext)) # last'.arg)
       /\ (/\ FrameHead(Content(Self)) /\ buffer_size_ >= 6
           /\ \/ last'.op \in {"read", "skip"}
              \/ last'.op = "processSerialData" /\ last'.arg = 0
              \/ last'.op = "readObject" /\ last'.arg # WireId(Content(Self))) =>
            /\ buffer_index_' = buffer_index_
            /\ FirstN(Content(SelfNext), buffer_size_) = Content(Self)
            /\ getObjectId(SelfNext, is_little_endian) = WireId(Content(Self))
            /\ last'.op = "readObject" => last'.result = "ObjectIdMismatch"
       /\ \A t \in TypeNames : \A obj \in Objects[t] :
            LET frame == FrameOf(t, obj, is_little_endian)
                res   == readObject(Self, obj_buffer_, TypeOf[t].T, TypeOf[t].id,
                                    out[t], is_little_endian)
            IN (/\ Complete(Content(Self))
                /\ WireId(Content(Self)) = TypeOf[t].id
                /\ FirstN(Content(Self), Len(frame)) = frame) =>
                 (~res.overflow /\ res.result = "Success")]_vars

C17_CrcDecides ==
  Live =>
    \A t \in TypeNames :
      LET s        == Content(Self)
          L        == WireLength(s)
          stored   == s[7 + L] + 256 * s[8 + L]
          computed == compute_crc16(FirstN(s, 6 + L))
          res      == readObject(Self, obj_buffer_, TypeOf[t].T, TypeOf[t].id,
                                 out[t], is_little_endian)
      IN (Complete(s) /\ WireId(s) = TypeOf[t].id) =>
           /\ ~res.overflow
           /\ res.result = "CrcError" <=> stored # computed
           /\ stored = computed => res.result \in {"Success", "ObjectSizeMismatch"}

\* C18: when a frame header is present (hasObject, n >= 6) and, after
\* ingestion, n >= 8 + L, skipObject removes exactly 8 + L bytes and returns
\* Success, whatever the frame's id and whether or not its CRC is right.
C18_SkipObjectRemovesFrame ==
  [][(last'.op = "skipObject" /\ ~ub) =>
       LET e1 == _processSerialDataUntil(Self, buffer_index_)
           s1 == Content(e1)
           L  == WireLength(s1)
       IN (FrameHead(Content(Self)) /\ Len(s1) >= 6 /\ Len(s1) >= 8 + L) =>
            /\ last'.result = "Success"
            /\ receive_buffer' = e1.receive_buffer
            /\ buffer_size_' = e1.buffer_size_ - (8 + L)
            /\ Content(SelfNext) = DropN(s1, 8 + L)]_vars

\* C19: skipObject recovers from any frame at the head: whenever hasObject()
\* holds, repeated skipObject() calls with the port still delivering bytes
\* end in Success.  A call on a full buffer takes no byte from the port
\* (max_to_read = BUFFER_SIZE - buffer_size_ = 0) and its outcome depends on
\* the buffer alone, so a full buffer on which skipObject returns anything but
\* Success and changes nothing stays as it is under every later call and every
\* later delivery; the claim therefore requires that no such state is reached.
C19_SkipObjectRecovers ==
  (Live /\ hasObject(Self) /\ buffer_size_ = BUFFER_SIZE) =>
    \E more \in {<<>>, Gen(1), Gen(BUFFER_SIZE)} :
      LET e   == [Self EXCEPT !.receive_buffer = @ \o more]
          res == skipObject(e, is_little_endian)
      IN res.result = "Success" \/ res.e # e

\* The schema encoding of a value: a scalar as its bytes least significant
\* first, a string as its 16-bit length and its bytes, a vector and an array as
\* their 16-bit element count and their elements, a record as its fields.
LE16(x) == <<x % 256, (x \div 256) % 256>>

RECURSIVE Encoding(_, _)
Encoding(T, v) ==
  LET Items[i \in 0..Len(v)] ==
        IF i = 0 THEN <<>> ELSE Items[i - 1] \o Encoding(T.e[1], v[i])
      Fields[i \in 0..Len(T.e)] ==
        IF i = 0 THEN <<>> ELSE Fields[i - 1] \o Encoding(T.e[i], v[i])
  IN CASE T.k = "scalar" -> v
       [] T.k = "string" -> LE16(Len(v)) \o v
       [] T.k = "vector" -> LE16(Len(v)) \o Items[Len(v)]
       [] T.k = "array"  -> LE16(T.s) \o Items[Len(v)]
       [] T.k = "record" -> Fields[Len(T.e)]

Sent == CHOOSE t \in SendTypeNames : SendTypeOf[t].id = last.arg

\* C20: every frame sendObject<T>(v) hands to the port is 0x02 0x42, id(T)
\* little-endian, L = compute_size(v) little-endian, the schema encoding of v
\* (L bytes), and the CRC-16 of the 6 + L bytes before it little-endian:
\* 8 + L bytes in all, on either host byte order.
C20_FrameLayout ==
  (last.op = "sendObject" /\ last.result # "ObjectTooLarge") =>
    LET T == SendTypeOf[Sent].T
        v == out[Sent]
        L == compute_size(T, v)
        f == last.data
    IN /\ Len(f) = 8 + L
       /\ SubSeq(f, 1, 2) = <<2, 66>>
       /\ SubSeq(f, 3, 4) = LE16(SendTypeOf[Sent].id)
       /\ SubSeq(f, 5, 6) = LE16(L)
       /\ SubSeq(f, 7, 6 + L) = Encoding(T, v)
       /\ SubSeq(f, 7 + L, 8 + L) = LE16(compute_crc16(SubSeq(f, 1, 6 + L)))

C20_Witness ==
  /\ last.op = "sendObject"
  /\ last.result = "Success"
  /\ ~is_little_endian
  /\ Len(last.data) = SEND_SERIALIZATION_BUFFER_SIZE
  /\ Sent = "TestObjectWithString"

\* The type a sendObject call recorded in `call` was made for.
SentBy(call) == CHOOSE t \in SendTypeNames : SendTypeOf[t].id = call.arg

\* C21: sendObject returns ObjectTooLarge exactly when 8 + L > S, L the encoded
\* payload size; then nothing is handed to the port and obj_buffer_ is not
\* written.
C21_ObjectTooLarge ==
  [][last'.op = "sendObject" =>
       LET t == SentBy(last')
           L == Len(Encoding(SendTypeOf[t].T, out[t]))
       IN /\ last'.result = "ObjectTooLarge" <=> 8 + L > SEND_SERIALIZATION_BUFFER_SIZE
          /\ last'.result = "ObjectTooLarge" =>
               (last'.data = <<>> /\ obj_buffer_' = obj_buffer_)
          /\ last'.result # "ObjectTooLarge" => Len(last'.data) = 8 + L]_vars

\* An object refused after an earlier frame was left in obj_buffer_.
C21_Witness ==
  /\ last.op = "sendObject"
  /\ last.result = "ObjectTooLarge"
  /\ obj_buffer_[0] = Marker0
  /\ obj_buffer_[1] = Marker1

\* The frame of an object v of shape T and id `id`, as the wire format gives it.
WireFrame(T, id, v) ==
  LET head == <<2, 66>> \o LE16(id) \o LE16(Len(Encoding(T, v))) \o Encoding(T, v)
  IN head \o LE16(compute_crc16(head))

SentBackBy(call) == CHOOSE t \in TypeNames : TypeOf[t].id = call.arg

\* C22: when 8 + L <= S, sendObject makes exactly one port write call, with the
\* whole frame of 8 + L bytes, and returns Success when the call returned true
\* and WriteError when it returned false; after WriteError the engine goes on
\* sending and receiving: the ring is as it was, the next send again hands over
\* the whole frame, and readObject answers as it would have without the send.
C22_OneWrite ==
  [][last'.op = "sendObject" =>
       \A t \in {SentBackBy(last')} :
       \A frame \in {WireFrame(TypeOf[t].T, TypeOf[t].id, out[t])} :
          /\ Len(frame) <= SERIALIZATION_BUFFER_SIZE =>
               /\ last'.ret = 1
               /\ last'.data = frame
               /\ last'.result \in {"Success", "WriteError"}
               /\ \A w \in BOOLEAN :
                    \A res \in {sendObject(obj_buffer_, SERIALIZATION_BUFFER_SIZE,
                                           TypeOf[t].T, TypeOf[t].id, out[t],
                                           is_little_endian, w)} :
                       /\ res.result = IF w THEN "Success" ELSE "WriteError"
                       /\ res.calls = <<frame>>
                       /\ res.obj_buffer_ = obj_buffer_'
          /\ last'.result = "WriteError" =>
               /\ SelfNext = Self
               /\ out' = out
               /\ \A res \in {sendObject(obj_buffer_', SERIALIZATION_BUFFER_SIZE,
                                         TypeOf[t].T, TypeOf[t].id, out'[t],
                                         is_little_endian, TRUE)} :
                     res.result = "Success" /\ res.calls = <<frame>>
               /\ \A u \in {v \in TypeNames : FrameHead(Content(Self))} :
                    \A a \in {readObject(SelfNext, obj_buffer_', TypeOf[u].T,
                                         TypeOf[u].id, out'[u], is_little_endian)} :
                    \A b \in {readObject(SelfNext, [i \in DOMAIN obj_buffer_ |-> 0],
                                         TypeOf[u].T, TypeOf[u].id, out'[u],
                                         is_little_endian)} :
                       /\ a.result = b.result
                       /\ a.overflow = b.overflow
                       /\ a.e = b.e
                       /\ a.obj = b.obj]_vars

\* A refused write with a whole frame waiting in the ring.
C22_Witness ==
  /\ last.op = "sendObject"
  /\ last.result = "WriteError"
  /\ last.ret = 1
  /\ hasObject(Self)
  /\ buffer_size_ >= 9

\* A 16-bit pattern read as a signed number.
Signed16(x) == IF x >= 32768 THEN x - 65536 ELSE x

\* C23: hasObject() is true exactly when n >= 4 and the first two logical bytes
\* are 0x02 0x42; getObjectId() is -1 when hasObject() is false and otherwise
\* the logical bytes 2 and 3 read as a little-endian signed 16-bit number.
C23_HasObjectAndId ==
  Live =>
    /\ hasObject(Self) <=> FrameHead(Content(Self))
    /\ ~hasObject(Self) => getObjectId(Self, is_little_endian) = -1
    /\ hasObject(Self) =>
         getObjectId(Self, is_little_endian) = Signed16(WireId(Content(Self)))

\* C24: when the logical content is g > 0 generic bytes without a marker pair,
\* not ending in 0x02, followed by a complete valid frame of type T, then
\* available() = g and hasObject() is false; once read or skip has removed
\* the g bytes, hasObject() is true, getObjectId() = id(T) and readObject<T>
\* returns Success with the object that was sent.
C24_GenericThenObject ==
  [][Live =>
       \A g \in {FirstPair(Content(Self))} :
         (g > 0 /\ Content(Self)[g] # Marker0 /\ Complete(DropN(Content(Self), g))) =>
           \A t \in TypeNames : \A obj \in Objects[t] :
             \A frame \in {FrameOf(t, obj, is_little_endian)} :
               FirstN(DropN(Content(Self), g), Len(frame)) = frame =>
                 /\ available(Self) = g
                 /\ ~hasObject(Self)
                 /\ (last'.op \in {"read", "skip"} /\ last'.ret = g) =>
                      /\ hasObject(SelfNext)
                      /\ getObjectId(SelfNext, is_little_endian) = TypeOf[t].id
                      /\ \A res \in {readObject(SelfNext, obj_buffer_', TypeOf[t].T,
                                                TypeOf[t].id, out'[t], is_little_endian)} :
                           /\ ~res.overflow
                           /\ res.result = "Success"
                           /\ res.obj = obj]_vars

\* The result the fixed order of checks gives for readObject<t> on content s
\* (s the content after the call's ingestion, s0 the content before it).
Ordered(t, s0, s, obj, le) ==
  IF ~FrameHead(s0) THEN "NoObjectAvailable"
  ELSE IF Len(s) < 6 THEN "NotEnoughData"
  ELSE IF Signed16(WireId(s)) # TypeOf[t].id THEN "ObjectIdMismatch"
  ELSE IF 8 + WireLength(s) > Len(s) THEN "NotEnoughData"
  ELSE IF s[7 + WireLength(s)] + 256 * s[8 + WireLength(s)]
            # compute_crc16(FirstN(s, 6 + WireLength(s))) THEN "CrcError"
  ELSE IF deserialize(TypeOf[t].T, SubSeq(s, 7, 6 + WireLength(s)), 0,
                      WireLength(s), obj, le).n # WireLength(s)
       THEN "ObjectSizeMismatch"
  ELSE "Success"

ReadFor(call) == CHOOSE t \in TypeNames : TypeOf[t].id = call.arg

\* C25: readObject<T> decides its result in a fixed order: no object at the
\* head -> NoObjectAvailable; after ingestion n < 6 -> NotEnoughData; id other
\* than id(T) -> ObjectIdMismatch, complete frame or not; 8 + L > n ->
\* NotEnoughData; CRC mismatch -> CrcError; decoder consumed other than L bytes
\* -> ObjectSizeMismatch; otherwise Success.
C25_ResultOrder ==
  [][(Live /\ last'.op = "readObject") =>
       \A t \in {ReadFor(last')} :
       \A e1 \in {IF FrameHead(Content(Self))
                    THEN _processSerialDataUntil(Self, buffer_index_) ELSE Self} :
         last'.result = Ordered(t, Content(Self), Content(e1), out[t],
                                is_little_endian)]_vars

\* C26: with an object at the head, readObject and skipObject first take at
\* most C - n bytes from the port and displace no buffered byte (r and the
\* buffered bytes stay), so a frame whose tail still waits in the port is read,
\* or skipped, by a single call with no processSerialData before it.
C26_IngestBeforeRead ==
  [][(/\ Live
      /\ last'.op \in {"readObject", "skipObject"}
      /\ FrameHead(Content(Self))) =>
       \A e1 \in {_processSerialDataUntil(Self, buffer_index_)} :
       \A k \in {Len(receive_buffer) - Len(e1.receive_buffer)} :
         /\ k >= 0 /\ k <= BUFFER_SIZE - buffer_size_
         /\ e1.buffer_index_ = buffer_index_
         /\ Content(e1) = Content(Self) \o FirstN(receive_buffer, k)
         /\ e1.receive_buffer = DropN(receive_buffer, k)
         /\ receive_buffer' = e1.receive_buffer
         /\ \A t \in TypeNames : \A obj \in Objects[t] :
              \A frame \in {FrameOf(t, obj, is_little_endian)} :
                (/\ Len(Content(Self)) < Len(frame)
                 /\ FirstN(Content(Self) \o receive_buffer, Len(frame)) = frame) =>
                   /\ last'.op = "skipObject" =>
                        /\ last'.result = "Success"
                        /\ Content(SelfNext) = DropN(Content(e1), Len(frame))
                   /\ (last'.op = "readObject" /\ last'.arg = TypeOf[t].id) =>
                        /\ last'.result = "Success"
                        /\ out'[t] = obj
                        /\ Content(SelfNext) = DropN(Content(e1), Len(frame))]_vars

\* The engine with the port refilled: however much a call takes, the port still
\* reports bytes available when the call ends.
Refilled(e) == [e EXCEPT !.receive_buffer = @ \o Gen(2 * BUFFER_SIZE)]

\* The most one ingestion call may take.
Cap(overwrite_buffer, n) ==
  IF overwrite_buffer THEN (IF n = 0 THEN BUFFER_SIZE ELSE BUFFER_SIZE - 1)
  ELSE BUFFER_SIZE - n

\* C27: one ingestion call takes a bounded number of bytes and returns even
\* when the port never runs out: at most C - 1 bytes in overwrite mode with
\* n > 0, at most C with n = 0, at most C - n in non-overwrite mode; the bytes
\* beyond the cap stay in the port for a later call.
C27_IngestionCapped ==
  [][Live =>
       /\ \A overwrite_buffer \in BOOLEAN :
            \A e0 \in {Refilled(Self)} :
            \A e1 \in {processSerialData(e0, overwrite_buffer)} :
            \A k \in {Len(e0.receive_buffer) - Len(e1.receive_buffer)} :
               /\ k >= 0 /\ k <= Cap(overwrite_buffer, buffer_size_)
               /\ e1.receive_buffer = DropN(e0.receive_buffer, k)
               /\ e1.receive_buffer # <<>>
               /\ InRange(e1)
       /\ last'.op = "processSerialData" =>
            /\ Taken >= 0 /\ Taken <= Cap(last'.arg = 1, buffer_size_)
            /\ receive_buffer' = DropN(receive_buffer, Taken)]_vars

\* An overwrite-mode call that took its C - 1 bytes and left the rest in the port.
C27_Witness ==
  /\ last.op = "processSerialData"
  /\ last.arg = 1
  /\ last.ret = BUFFER_SIZE - 1
  /\ receive_buffer # <<>>

\* C28: every ingestion runs to completion for every port the interface
\* permits: available() >= 0 and read(dst, len) returning any count in
\* [0, len], a count of 0 while available() is positive included.  The loop of
\* an ingestion ends when the port reports nothing or max_to_read is 0; a pass
\* that leaves the engine and max_to_read as they were, while the port goes on
\* reporting bytes, is followed by the same pass again, so completion requires
\* that no permitted answer of the port gives such a pass.
C28_IngestionCompletes ==
  Live =>
    \A max_to_read \in 1..BUFFER_SIZE :
    \A reported \in 1..BUFFER_SIZE :
    \A count \in 0.._processSerialData_request(Self, max_to_read, reported) :
    \A pass \in {_processSerialData_pass(Refilled(Self), max_to_read, count)} :
       ~(/\ pass.max_to_read = max_to_read
         /\ pass.e = Refilled(Self))

\* s is a frame f with exactly one payload byte altered.
OneByteOff(s, f) ==
  /\ Len(s) = Len(f)
  /\ Cardinality({p \in 1..Len(f) : s[p] # f[p]}) = 1
  /\ \A p \in 1..Len(f) : s[p] # f[p] => (p >= 7 /\ p <= Len(f) - 2)

\* C29: a frame produced by sendObject with exactly one payload byte altered,
\* whole at the head of the buffer, makes readObject<T> return CrcError, for
\* every payload, byte position and replacement value.
C29_OneByteDetected ==
  [][(Live /\ last'.op = "readObject" /\ FrameHead(Content(Self))) =>
       \A t \in {ReadFor(last')} :
       \A s \in {Content(Self)} :
       \A obj \in Objects[t] :
       \A f \in {FrameOf(t, obj, is_little_endian)} :
          OneByteOff(FirstN(s, Len(f)), f) => last'.result = "CrcError"]_vars

\* The cells, counted from data, that a sequence of stores fills.
Cells(w) ==
  UNION {{w[k].at + i - 1 : i \in 1..Len(w[k].bytes)} : k \in 1..Len(w)}

\* The number of bytes a sequence of stores writes.
Stored(w) ==
  LET Sum[k \in 0..Len(w)] ==
        IF k = 0 THEN 0 ELSE Sum[k - 1] + Len(w[k].bytes)
  IN Sum[Len(w)]

\* C30: for every value of the supported shapes compute_size(v) is the number
\* of bytes serialize(v, data) writes, which are the cells data[0..n-1], and is
\* the value serialize returns.
C30_SizeIsWritten ==
  last.op = "serialize" =>
    /\ last.arg = last.ret
    /\ Stored(last.data) = last.ret
    /\ Cells(last.data) = 0..(last.ret - 1)

\* A record with records in a vector and in an array has been serialised.
C30_Witness ==
  /\ last.op = "serialize"
  /\ out.T = TestWithClassVectorAndArray
  /\ Len(out.v[2]) = MaxItems
  /\ Len(out.v[2][1][2]) > 0
  /\ last.ret > 8 * MaxItems

\* C31: deserialize applied to the bytes of serialize(v) with length =
\* compute_size(v) yields v and reports compute_size(v) bytes consumed,
\* whatever the object held before; the bytes are the fields in declared order.
C31_RoundTrip ==
  [][(last.op = "serialize" /\ last'.op = "deserialize") =>
       /\ stored_data(last.data, last.ret) = Encoding(out.T, out.v)
       /\ last'.arg = compute_size(out.T, out.v)
       /\ last'.ret = compute_size(out.T, out.v)
       /\ last'.data = out.v]_vars

\* A record with records in a vector and in an array came back, on a
\* big-endian host, into an object that held other content.
C31_Witness ==
  /\ last.op = "deserialize"
  /\ ~is_little_endian
  /\ out.T = TestWithClassVectorAndArray
  /\ Len(out.v[2]) = MaxItems
  /\ out.v[1] # <<0, 0>>
  /\ last.data = out.v
  /\ last.data # Default(out.T)

\* The type a readObject call of the decoding receiver was made for.
DecodedAs(call) == CHOOSE t \in DecodeTypeNames : DecodeTypeOf[t].id = call.arg

\* The payload of the frame that starts the bytes s.
PayloadOf(s) == SubSeq(s, 7, 6 + WireLength(s))

\* The frame that starts the bytes s is whole and its CRC field holds the
\* CRC-16 of the bytes before it.
CrcValid(s) ==
  /\ Complete(s)
  /\ SubSeq(s, 7 + WireLength(s), 8 + WireLength(s))
       = LE16(compute_crc16(SubSeq(s, 1, 6 + WireLength(s))))

\* Decoding a value of shape T from data at pos with length bytes left, some
\* decoder lacks input: a scalar larger than what is left, a string whose
\* count is missing or exceeds what is left, a count of a sequence that is
\* missing, or an item or a field for which this is so in turn.
RECURSIVE Starved(_, _, _, _)
Starved(T, data, pos, length) ==
  LET N == IF length < 2 THEN 0 ELSE data[pos + 1] + 256 * data[pos + 2]
      After(U, at) == deserialize(U, data, pos + at, length - at, Default(U), TRUE).n
      ItemAt[i \in 1..N] == IF i = 1 THEN 2 ELSE ItemAt[i - 1] + After(T.e[1], ItemAt[i - 1])
      FieldAt[i \in 1..Len(T.e)] ==
        IF i = 1 THEN 0 ELSE FieldAt[i - 1] + After(T.e[i - 1], FieldAt[i - 1])
  IN CASE T.k = "scalar" -> length < T.s
       [] T.k = "string" -> length < 2 \/ length < 2 + N
       [] T.k = "vector" ->
            length < 2 \/ \E i \in 1..N : Starved(T.e[1], data, pos + ItemAt[i], length - ItemAt[i])
       [] T.k = "array" ->
            length < 2
              \/ \E i \in 1..Min(N, T.s) :
                   Starved(T.e[1], data, pos + ItemAt[i], length - ItemAt[i])
       [] T.k = "record" ->
            \E i \in 1..Len(T.e) :
              Starved(T.e[i], data, pos + FieldAt[i], length - FieldAt[i])

\* C32: when a field decoder fails for lack of input while a CRC-valid frame
\* of the type asked for is decoded, readObject returns ObjectSizeMismatch,
\* whatever fields follow the one that failed.
C32_StarvedDecoderFails ==
  [][(Live /\ ~ub' /\ last'.op = "readObject" /\ CrcValid(Content(Self))
        /\ WireId(Content(Self)) = last'.arg
        /\ Starved(DecodeTypeOf[DecodedAs(last')].T, PayloadOf(Content(Self)), 0,
                   WireLength(Content(Self))))
       => last'.result = "ObjectSizeMismatch"]_vars

\* The frame that starts the bytes s carries, for a fixed array of the type t,
\* a count other than the array's length.
WrongCount(t, s) ==
  \E c \in deserialize_calls(DecodeTypeOf[t].T, s, 6, WireLength(s), TRUE) :
    /\ c.T.k = "array"
    /\ c.length >= 2
    /\ s[c.pos + 1] + 256 * s[c.pos + 2] # c.T.s

\* C33: readObject never returns Success for a CRC-valid frame in which the
\* count of a fixed array differs from the array's compile-time length.
C33_ArrayCountChecked ==
  [][(Live /\ last'.op = "readObject" /\ CrcValid(Content(Self))
        /\ WireId(Content(Self)) = last'.arg
        /\ WrongCount(DecodedAs(last'), Content(Self)))
       => last'.result # "Success"]_vars

\* The scalars of more than one byte inside a value of shape T.
RECURSIVE WideScalars(_, _)
WideScalars(T, v) ==
  CASE T.k = "scalar" -> IF T.s > 1 THEN {v} ELSE {}
    [] T.k = "string" -> {}
    [] T.k = "vector" -> UNION {WideScalars(T.e[1], v[i]) : i \in 1..Len(v)}
    [] T.k = "array"  -> UNION {WideScalars(T.e[1], v[i]) : i \in 1..Len(v)}
    [] T.k = "record" -> UNION {WideScalars(T.e[i], v[i]) : i \in 1..Len(T.e)}

\* C34: what sendObject hands to the port does not depend on the host's byte
\* order: the id, the length, the CRC and every 16-, 32- and 64-bit scalar of
\* the object go least significant byte first on either host; and converting
\* to little-endian and back, and swapping twice, give the value back.
C34_WireIsLittleEndian ==
  (last.op = "sendObject" /\ last.result # "ObjectTooLarge") =>
    \A T \in {SendTypeOf[SentBy(last)].T} :
    \A v \in {out[SentBy(last)]} :
    \A f \in {last.data} :
      /\ f = object_frame(T, last.arg, v, ~is_little_endian)
      /\ SubSeq(f, 3, 4) = LE16(last.arg)
      /\ SubSeq(f, 5, 6) = LE16(Len(f) - 8)
      /\ SubSeq(f, 7, Len(f) - 2) = Encoding(T, v)
      /\ SubSeq(f, Len(f) - 1, Len(f)) = LE16(compute_crc16(SubSeq(f, 1, Len(f) - 2)))
      /\ \A x \in WideScalars(T, v) \cup {SubSeq(f, 3, 4), SubSeq(f, 5, 6),
                                          SubSeq(f, Len(f) - 1, Len(f))} :
           /\ letohost(hosttole(x, is_little_endian), is_little_endian) = x
           /\ hosttole(letohost(x, is_little_endian), is_little_endian) = x
           /\ byteswap(byteswap(x)) = x
           /\ serialize(Scalar(Len(x)), x, is_little_endian) = x

\* A big-endian host has sent an object with a 64-bit and a 32-bit scalar.
C34_Witness ==
  /\ last.op = "sendObject"
  /\ last.result = "Success"
  /\ ~is_little_endian
  /\ SentBy(last) = "CommStatus"
  /\ SubSeq(last.data, 7, 14) = <<1, 2, 3, 4, 5, 6, 7, 200>>

\* C35: readObject never copies more than SERIALIZATION_BUFFER_SIZE bytes into
\* obj_buffer_: when the frame at the head, after ingestion, has the id asked
\* for, passes the length check (8 + L <= n) and straddles the end of the array
\* (r + L + 8 > BUFFER_SIZE), then 8 + L <= SERIALIZATION_BUFFER_SIZE and
\* nothing is written outside obj_buffer_.
C35_ScratchNeverOverrun ==
  [][(Live /\ last'.op = "readObject" /\ hasObject(Self)) =>
       \A e1 \in {_processSerialDataUntil(Self, buffer_index_)} :
       \A L \in {_readObjectSize(e1, e1.buffer_index_, is_little_endian)} :
         (/\ e1.buffer_size_ >= 6
          /\ getObjectId(e1, is_little_endian) = last'.arg
          /\ 8 + L <= e1.buffer_size_
          /\ e1.buffer_index_ + L + 8 > BUFFER_SIZE)
           => (8 + L <= SERIALIZATION_BUFFER_SIZE /\ ~ub')]_vars

\* C36: decoding the payload of a CRC-valid frame, the decoders consume no
\* more than L bytes in all, every nested decoder is called inside the payload
\* with a length that is not negative and ends at offset L, and no byte at or
\* beyond offset L is read: the result is the same when nothing follows the
\* payload.
C36_DecoderStaysInPayload ==
  [][(Live /\ ~ub' /\ last'.op = "readObject" /\ CrcValid(Content(Self))
        /\ WireId(Content(Self)) = last'.arg) =>
       \A t \in {DecodedAs(last')} :
       \A s \in {Content(Self)} :
       \A L \in {WireLength(s)} :
       \A dec \in {deserialize(DecodeTypeOf[t].T, s, 6, L, out[t], is_little_endian)} :
         /\ last'.result \in {"Success", "ObjectSizeMismatch"}
         /\ out'[t] = dec.v
         /\ dec.n <= L
         /\ dec = deserialize(DecodeTypeOf[t].T, FirstN(s, 6 + L), 6, L, out[t],
                              is_little_endian)
         /\ \A c \in deserialize_calls(DecodeTypeOf[t].T, s, 6, L, is_little_endian) :
              /\ c.length >= 0
              /\ c.pos >= 6
              /\ c.pos + c.length = 6 + L]_vars

\* A vector was resized to the five items its count announces, none of which
\* the payload holds.
C36_Witness ==
  /\ last.op = "readObject"
  /\ last.result = "Success"
  /\ last.arg = DecodeTypeOf["List"].id
  /\ Len(out["List"][1]) = 5

C38_LengthClamped ==
  [][(Live /\ last'.op \in {"read", "skip"}) =>
       \A e1 \in {IF last'.op = "skip" THEN processSerialData(Self, FALSE) ELSE Self} :
         /\ last'.ret <= available(e1)
         /\ e1.buffer_size_ - buffer_size_' <= available(e1)
         /\ ~ub'
         /\ buffer_size_' \in 0..BUFFER_SIZE
         /\ buffer_index_' \in 0..(BUFFER_SIZE - 1)]_vars

\* C39: sendObject leaves the receive state as it is: r, n, the array and so
\* the logical content are the same after the call, nothing is taken from the
\* port, the caller's objects are untouched, and what waits in the buffer is
\* read afterwards as it would have been read before.
C39_SendKeepsReceiveState ==
  [][(Live /\ last'.op = "sendObject") =>
       /\ buffer_index_' = buffer_index_
       /\ buffer_size_' = buffer_size_
       /\ buffer_' = buffer_
       /\ Content(SelfNext) = Content(Self)
       /\ receive_buffer' = receive_buffer
       /\ out' = out
       /\ ~ub'
       /\ available(SelfNext) = available(Self)
       /\ hasObject(SelfNext) = hasObject(Self)
       /\ \A t \in {v \in TypeNames : FrameHead(Content(Self))} :
          \A before \in {readObject(Self, obj_buffer_, TypeOf[t].T, TypeOf[t].id,
                                    out[t], is_little_endian)} :
          \A after \in {readObject(SelfNext, obj_buffer_', TypeOf[t].T, TypeOf[t].id,
                                   out'[t], is_little_endian)} :
            /\ after.result = before.result
            /\ after.obj = before.obj
            /\ after.e = before.e
            /\ after.overflow = before.overflow]_vars

\* An object was sent while a frame lay at the head of the buffer and bytes
\* waited in the port.
C39_Witness ==
  /\ last.op = "sendObject"
  /\ last.result = "Success"
  /\ FrameHead(Content(Self))
  /\ receive_buffer # <<>>

\* C40: the sentinel is unambiguous: in every reachable state getObjectId() =
\* -1 implies that hasObject() is false.
C40_SentinelUnambiguous ==
  Live => (getObjectId(Self, is_little_endian) = -1 => ~hasObject(Self))

====
